---- MODULE Spec2Model ----
(***************************************************************************)
(* Incremental ETL watermarking and SCD update engine of the rehouzd       *)
(* function app (function_app_code/).                                      *)
(*                                                                         *)
(* The database is modelled as two copies of the tables the app writes:    *)
(* db (what is committed) and tx (what the invocation's connection sees:   *)
(* committed rows plus its own uncommitted statements).  conn.commit()     *)
(* copies tx to db; an exception or a crash drops the connection, which    *)
(* rolls the open transaction back (tx := db).  lookups.adf_load_tracker   *)
(* is the variable tracker.  Tables the app only reads (the bronze tables  *)
(* loaded by the data-factory pipelines) are the variable ext.             *)
(*                                                                         *)
(* Timestamps are naturals, Epoch = 0 stands for '1970-01-01'; the clock   *)
(* advances by one at every trigger, an external load is stamped with the  *)
(* time it happens at.                                                     *)
(***************************************************************************)
EXTENDS Integers, Sequences, FiniteSets, TLC

\* ---------------------------------------------------------------- bounds
MaxClock == 3
MaxBatch == 2
MaxClockAll == 3
MaxClockHist == 4
HistBatch == 1
MaxLoads == 1

\* ------------------------------------------------------------- constants
Epoch == 0
YearWindow == 12
ActiveMin == 2
BucketWidth == 10
HttpOk == 200
Null == "NULL"
NoGen == 0 - 1

\* logical table names used as watermark keys
T_PRPS == "pl_brnz_prps_prop_sales_dtl"
T_INV == "silver_int_inv_dtl"
T_PRCL == "brnz_prcl_prop_sales_dtl"
T_PROP == "slvr_int_prop"
T_COMPS == "slvr_int_prop_comps"
T_SALES == "slvr_int_prop_sales_dlt"
T_GOOG == "brnz_goog_prop_add_dtl"
TableNames == {T_PRPS, T_INV, T_PRCL, T_PROP, T_COMPS, T_SALES, T_GOOG}

\* the tables the app writes (fields of db and tx)
DataTables == {"inv", "prop", "sales", "prcl"}

\* --------------------------------------------------------------- helpers
Max0(S) == IF S = {} THEN 0 ELSE CHOOSE m \in S : \A x \in S : x <= m

Min0(S) == CHOOSE m \in S : \A x \in S : m <= x

\* FLOOR(v / 10) * 10 (lines 98-99) on a numeric or floating-point column: the
\* quotient keeps its fraction and FLOOR rounds it down
bucket(v) == (v \div BucketWidth) * BucketWidth

\* FLOOR(v / 10) * 10 (lines 98-99) on an integer column: "/" is the integer
\* division of the database, which truncates toward zero, and FLOOR has nothing
\* left to round
bucket_int(v) ==
    IF v >= 0 THEN (v \div BucketWidth) * BucketWidth
              ELSE 0 - (((0 - v) \div BucketWidth) * BucketWidth)

\* all orderings of a finite set, as sequences without repetition
Orderings(S) ==
    { f \in [1..Cardinality(S) -> S] : \A i, j \in 1..Cardinality(S) : i # j => f[i] # f[j] }

\* the rows of S ordered by ascending sk (ORDER BY ... sk ASC); sk is unique in S
RECURSIVE BySk(_)
BySk(S) ==
    IF S = {} THEN << >>
    ELSE LET r == CHOOSE x \in S : \A y \in S : x.sk <= y.sk
         IN  <<r>> \o BySk(S \ {r})

\* ------------------------------------------------- the watermark registry
\* sensitivity variant of get_last_etl_ts: the pair of the row appended last
get_last_etl_ts_last_row(trk, tbl_name) ==
    LET rows == { r \in trk : r.tbl_nm = tbl_name }
        last == CHOOSE r \in rows : \A o \in rows : o.tbl_id <= r.tbl_id
    IN  IF rows = {} THEN [ts |-> Epoch, nr |-> 0]
        ELSE [ts |-> last.last_loaded_ts, nr |-> last.etl_nr]

\* get_last_etl_ts: COALESCE(MAX(last_loaded_ts), epoch), COALESCE(MAX(etl_nr), 0)
get_last_etl_ts(trk, tbl_name) ==
    LET rows == { r \in trk : r.tbl_nm = tbl_name }
    IN  [ts |-> IF rows = {} THEN Epoch ELSE Max0({ r.last_loaded_ts : r \in rows }),
         nr |-> IF rows = {} THEN 0 ELSE Max0({ r.etl_nr : r \in rows })]

\* sensitivity variant of upd_lookup_mx_id: the maximum is used as read
upd_lookup_mx_id_as_read(trk) == Max0({ r.tbl_id : r \in trk })

\* upd_lookup_tbl, first half: select max(tbl_id), None -> 0, plus 1
upd_lookup_mx_id(trk) == Max0({ r.tbl_id : r \in trk }) + 1

\* upd_lookup_tbl, second half: the inserted tracker row
upd_lookup_row(mx_id, pipeline_nm, etl_reorded_gmts, etl_nr) ==
    [tbl_id |-> mx_id, tbl_nm |-> pipeline_nm,
     last_loaded_ts |-> etl_reorded_gmts, etl_nr |-> etl_nr]

\* ------------------------------------------------------------------ state
VARIABLES
    clock,      \* datetime.now(), in ticks
    ext,        \* tables the app only reads: [prps, goog, comps]
    db,         \* committed rows of the tables the app writes: [inv, prop, sales, prcl]
    tx,         \* the same tables as the invocation's connection sees them
    tracker,    \* lookups.adf_load_tracker (committed rows)
    pc,         \* position of the running invocation, "idle" when none runs
    loc,        \* its local variables
    run,        \* bookkeeping of the current / last invocation (history variable)
    ok_gen      \* per target table: generation taken by its last successful run

vars == <<clock, ext, db, tx, tracker, pc, loc, run, ok_gen>>

NoLoc ==
    [records |-> << >>, i |-> 0, sk |-> 0, etl_nr |-> 0, prv_etl_nr |-> 0, ts |-> 0,
     mx_id |-> 0, wm_nm |-> Null, wm_ts |-> 0, wm_nr |-> 0, key |-> 0,
     props |-> << >>, j |-> 0, pending |-> {}]

\* An HTTP request as rehouzd_function reads it: q is the process_key of the
\* query string (Null: the parameter is absent), body tells whether the request
\* has a JSON body and the process_key of that body (Null: None, no such entry)
NoBody == [has |-> FALSE, process_key |-> Null]
Request(q, body) == [q |-> q, body |-> body]

NoRun ==
    [req |-> Request(Null, NoBody), key |-> Null, status |-> "none", at |-> Null, tbl |-> Null, gen |-> NoGen,
     prev_ok |-> NoGen, pre |-> [inv |-> {}, prop |-> {}, sales |-> {}, prcl |-> {}],
     pre_trk |-> {}, n_adv |-> 0, adv_clean |-> TRUE, ret |-> Null,
     exc |-> Null, msg |-> Null]

Init ==
    /\ clock = 1
    /\ ext = [prps |-> {}, goog |-> {}, comps |-> {}]
    /\ db = [inv |-> {}, prop |-> {}, sales |-> {}, prcl |-> {}]
    /\ tx = db
    /\ tracker = {}
    /\ pc = "idle"
    /\ loc = NoLoc
    /\ run = NoRun
    /\ ok_gen = [t \in DataTables |-> NoGen]

\* ------------------------------------------------- external (bronze) loads
\* A data-factory load of bronze.brnz_prps_prop_sales_dtl: one new generation of
\* rows, surrogate keys continuing the table's, stamped with the load time.
\* Payloads: the business columns a loaded row may carry,
\* [inv, addr, dt, br, bth2, sqft, yr, zip] (bth2: bathrooms in half units).
adf_load_prps(Payloads, rows) ==
    /\ pc = "idle"
    /\ Max0({ r.etl_nr : r \in ext.prps }) < MaxLoads
    /\ \E n \in 1..rows :
       \E f \in [1..n -> Payloads] :
          LET base == Max0({ r.sk : r \in ext.prps })
              g    == Max0({ r.etl_nr : r \in ext.prps }) + 1
          IN  ext' = [ext EXCEPT !.prps = @ \cup
                        { [sk |-> base + k, etl_nr |-> g, ts |-> clock, d |-> f[k]]
                          : k \in 1..n }]
    /\ run' = NoRun
    /\ UNCHANGED <<clock, db, tx, tracker, pc, loc, ok_gen>>

\* ------------------------------------------------------ common step pieces
\* getway: a synchronous process_key starts its stage on a fresh connection
StartRun(key, label, tbl, lim) ==
    /\ pc = "idle"
    /\ clock < lim
    /\ clock' = clock + 1
    /\ pc' = label
    /\ loc' = NoLoc
    /\ run' = [NoRun EXCEPT !.req = Request(key, NoBody), !.key = key,
                            !.status = "running", !.tbl = tbl,
                            !.pre = db, !.pre_trk = tracker]
    /\ UNCHANGED <<ext, db, tx, tracker, ok_gen>>

\* sensitivity variant of rollback: a connection whose statements take effect at
\* once (autocommit)
rollback_autocommit(committed, seen) == seen

\* what the database keeps of a dropped connection's open transaction
rollback(committed, seen) == committed

\* An exception (or a crash) at the current statement: every function logs and
\* re-raises, the connection is dropped and its open transaction rolled back.
Fail ==
    /\ pc # "idle"
    /\ tx' = rollback(db, tx)
    /\ pc' = "idle"
    /\ loc' = NoLoc
    /\ run' = [run EXCEPT !.status = "failed", !.at = pc,
                           !.exc = "statement error", !.msg = "statement error"]
    /\ tracker' = rollback(tracker, tracker \cup loc.pending)
    /\ UNCHANGED <<clock, ext, db, ok_gen>>

\* create_connection (common_utils.py lines 13-26) when psycopg2.connect raises:
\* the exception is logged and (False, str(err)) returned; the stage tests the
\* pair and raises a new exception that names the database
StartPcs == {"inv_start", "enr_start", "prp_start", "cmps_start", "upd_start", "sale_start"}
create_connection_fails ==
    /\ pc \in StartPcs
    /\ tx' = rollback(db, tx)
    /\ pc' = "idle"
    /\ loc' = NoLoc
    /\ run' = [run EXCEPT !.status = "failed", !.at = pc, !.exc = "connect error",
                           !.msg = "connectiuon is not established"]
    /\ UNCHANGED <<clock, ext, db, tracker, ok_gen>>

\* upd_lookup_tbl, lines 41-55: read the next tracker id
upd_lookup_tbl_read ==
    /\ pc = "lookup_read"
    /\ loc' = [loc EXCEPT !.mx_id = upd_lookup_mx_id(tracker)]
    /\ pc' = "lookup_insert"
    /\ UNCHANGED <<clock, ext, db, tx, tracker, run, ok_gen>>

\* upd_lookup_tbl, lines 57-62: insert the tracker row (not yet committed)
upd_lookup_tbl_insert ==
    /\ pc = "lookup_insert"
    /\ loc' = [loc EXCEPT !.pending =
                 { upd_lookup_row(loc.mx_id, loc.wm_nm, loc.wm_ts, loc.wm_nr) }]
    /\ pc' = "lookup_commit"
    /\ UNCHANGED <<clock, ext, db, tx, tracker, run, ok_gen>>

\* upd_lookup_tbl, line 63: conn.commit() commits whatever the connection holds
upd_lookup_tbl_commit ==
    /\ pc = "lookup_commit"
    /\ tracker' = tracker \cup loc.pending
    /\ db' = tx
    /\ loc' = [loc EXCEPT !.pending = {}]
    /\ run' = [run EXCEPT !.n_adv = @ + 1, !.adv_clean = @ /\ (tx = db)]
    /\ pc' = "end"
    /\ UNCHANGED <<clock, ext, tx, ok_gen>>

\* end_process, and the stage function returns normally
end_process ==
    /\ pc = "end"
    /\ pc' = "idle"
    /\ loc' = NoLoc
    /\ run' = [run EXCEPT !.status = "ok",
                           !.prev_ok = IF run.tbl \in DataTables THEN ok_gen[run.tbl] ELSE NoGen]
    /\ ok_gen' = IF run.tbl \in DataTables THEN [ok_gen EXCEPT ![run.tbl] = run.gen] ELSE ok_gen
    /\ UNCHANGED <<clock, ext, db, tx, tracker>>

\* ------------------------------------------------------ aggregation stage
\* sensitivity variant of InvGroups: groups of fewer than ActiveMin rows are
\* dropped (HAVING COUNT(*) >= 2)
InvGroups_active_only(prps, today, int_cols) ==
    LET ok   == { r \in prps : /\ r.d.dt <= today
                               /\ r.d.dt >= today - YearWindow
                               /\ r.d.inv # Null }
        grp(n) == { r \in ok : r.d.inv = n }
        cnt(n) == Cardinality(grp(n))
    IN  { [nm |-> n, cnt |-> cnt(n), flag |-> 1,
           min_prop_attr_br_cnt |-> Min0({ r.d.br : r \in grp(n) }),
           min_prop_attr_bth_cnt |-> Min0({ r.d.bth2 : r \in grp(n) }) \div 2,
           min_years |-> IF int_cols THEN bucket_int(Min0({ r.d.yr : r \in grp(n) }))
                                     ELSE bucket(Min0({ r.d.yr : r \in grp(n) })),
           min_sqft |-> IF int_cols THEN bucket_int(Min0({ r.d.sqft : r \in grp(n) }))
                                    ELSE bucket(Min0({ r.d.sqft : r \in grp(n) })),
           list_zips |-> { r.d.zip : r \in grp(n) }]
          : n \in { m \in { r.d.inv : r \in ok } : cnt(m) >= ActiveMin } }

\* the GROUP BY query of process_slv_int_inv (lines 88-143): one row per investor;
\* int_cols: prop_yr_blt_nr and prop_attr_sqft_nr are integer columns (the table
\* definition decides, the query reads the same either way)
InvGroups(prps, today, int_cols) ==
    LET ok   == { r \in prps : /\ r.d.dt <= today
                               /\ r.d.dt >= today - YearWindow
                               /\ r.d.inv # Null }
        noms == { r.d.inv : r \in ok }
        grp(n) == { r \in ok : r.d.inv = n }
        cnt(n) == Cardinality(grp(n))
    IN  { [nm |-> n, cnt |-> cnt(n), flag |-> IF cnt(n) >= ActiveMin THEN 1 ELSE 0,
           min_prop_attr_br_cnt |-> Min0({ r.d.br : r \in grp(n) }),
           min_prop_attr_bth_cnt |-> Min0({ r.d.bth2 : r \in grp(n) }) \div 2,
           min_years |-> IF int_cols THEN bucket_int(Min0({ r.d.yr : r \in grp(n) }))
                                     ELSE bucket(Min0({ r.d.yr : r \in grp(n) })),
           min_sqft |-> IF int_cols THEN bucket_int(Min0({ r.d.sqft : r \in grp(n) }))
                                    ELSE bucket(Min0({ r.d.sqft : r \in grp(n) })),
           list_zips |-> { r.d.zip : r \in grp(n) }] : n \in noms }

\* process_slv_int_inv lines 67-157 and upsert_table lines 13-20
process_slv_int_inv ==
    /\ pc = "inv_start"
    /\ \E int_cols \in BOOLEAN :
       \E recs \in Orderings(InvGroups(ext.prps, clock, int_cols)) :
         LET etl_nr == Max0({ r.etl_nr : r \in tx.inv })
             slv_pk == Max0({ r.sk : r \in tx.inv })
         IN  /\ loc' = [loc EXCEPT !.records = recs, !.i = 1, !.sk = slv_pk,
                                   !.prv_etl_nr = etl_nr, !.etl_nr = etl_nr + 1,
                                   !.ts = clock]
             /\ run' = [run EXCEPT !.gen = etl_nr + 1]
    /\ pc' = "upsert_update"
    /\ UNCHANGED <<clock, ext, db, tx, tracker, ok_gen>>

\* sensitivity variant of upd_query_match: the update is given the generation
\* after its increment
upd_query_match_new_generation(r, prv_etl_nr) == r.etl_nr = prv_etl_nr + 1

\* the rows upd_query touches: UPDATE ... SET active_rec_ind = false WHERE etl_nr = %s
upd_query_match(r, prv_etl_nr) == r.etl_nr = prv_etl_nr

\* upsert_table line 23
upsert_table_update ==
    /\ pc = "upsert_update"
    /\ tx' = [tx EXCEPT !.inv =
                { IF upd_query_match(r, loc.prv_etl_nr)
                    THEN [r EXCEPT !.active_rec_ind = FALSE] ELSE r : r \in @ }]
    /\ pc' = "upsert_commit1"
    /\ UNCHANGED <<clock, ext, db, tracker, loc, run, ok_gen>>

\* upsert_table line 24: conn.commit() right after the update
upsert_table_commit_update ==
    /\ pc = "upsert_commit1"
    /\ db' = tx
    /\ pc' = "upsert_insert"
    /\ UNCHANGED <<clock, ext, tx, tracker, loc, run, ok_gen>>

\* upsert_table lines 27-55: one pass of the insert loop
upsert_table_insert ==
    /\ pc = "upsert_insert"
    /\ loc.i <= Len(loc.records)
    /\ LET row == loc.records[loc.i]
           sk  == loc.sk + 1
       IN  /\ tx' = [tx EXCEPT !.inv = @ \cup
                       { [sk |-> sk, etl_nr |-> loc.etl_nr, ts |-> loc.ts,
                          nm |-> row.nm, cnt |-> row.cnt,
                          active_flg |-> (row.flag # 0), active_rec_ind |-> TRUE,
                          investor_profile |->
                            [min_prop_attr_br_cnt |-> row.min_prop_attr_br_cnt,
                             min_prop_attr_bth_cnt |-> row.min_prop_attr_bth_cnt,
                             min_year |-> row.min_years, min_sqft |-> row.min_sqft,
                             list_zips |-> row.list_zips]] }]
           /\ loc' = [loc EXCEPT !.sk = sk, !.i = @ + 1]
    /\ UNCHANGED <<clock, ext, db, tracker, pc, run, ok_gen>>

\* sensitivity variant of upsert_table_commit: the batch is left uncommitted
upsert_table_commit_missing ==
    /\ pc = "upsert_insert"
    /\ loc.i > Len(loc.records)
    /\ loc' = [loc EXCEPT !.wm_nm = T_INV, !.wm_ts = loc.ts, !.wm_nr = loc.etl_nr]
    /\ pc' = "lookup_read"
    /\ UNCHANGED <<clock, ext, db, tx, tracker, run, ok_gen>>

\* upsert_table lines 57-60 and process_slv_int_inv line 182 (arguments of upd_lookup_tbl)
upsert_table_commit ==
    /\ pc = "upsert_insert"
    /\ loc.i > Len(loc.records)
    /\ db' = tx
    /\ loc' = [loc EXCEPT !.wm_nm = T_INV, !.wm_ts = loc.ts, !.wm_nr = loc.etl_nr]
    /\ pc' = "lookup_read"
    /\ UNCHANGED <<clock, ext, tx, tracker, run, ok_gen>>

\* ------------------------------------------------- advance-raw-watermark
\* bnz_prps_upd (lines 628-654): the caller's etl_recorded_gmts and etl_nr go to
\* upd_lookup_tbl unchecked
bnz_prps_upd(Tss, Nrs) ==
    /\ pc = "upd_start"
    /\ \E t \in Tss, n \in Nrs :
         loc' = [loc EXCEPT !.wm_nm = T_PRPS, !.wm_ts = t, !.wm_nr = n]
    /\ pc' = "lookup_read"
    /\ UNCHANGED <<clock, ext, db, tx, tracker, run, ok_gen>>

\* --------------------------------------------------- sale-history stage
\* sensitivity variant of in_window: the timestamp bound alone
in_window_any_generation(r, wm) == r.ts <= wm.ts

\* a watermark window: WHERE etl_nr = {nr} AND etl_recorded_gmts <= '{ts}'
in_window(r, wm) == r.etl_nr = wm.nr /\ r.ts <= wm.ts

\* sensitivity variant of getway_call_slvr_int_prp_dtl: the generation is returned
\* as read, the thread gets the incremented one
getway_call_returns_read_generation ==
    /\ pc = "sale_start"
    /\ LET slvr_int_prop_dtl_sk == Max0({ r.sk : r \in tx.sales })
           etl_nr == Max0({ r.etl_nr : r \in tx.sales })
       IN  /\ loc' = [loc EXCEPT !.key = slvr_int_prop_dtl_sk, !.etl_nr = etl_nr + 1,
                                 !.ts = clock]
           /\ run' = [run EXCEPT !.gen = etl_nr + 1, !.ret = etl_nr]
    /\ pc' = "prop_start"
    /\ UNCHANGED <<clock, ext, db, tx, tracker, ok_gen>>

\* getway lines 896-933: key and generation are read on the request thread, the
\* thread is started and the generation returned to the caller
getway_call_slvr_int_prp_dtl ==
    /\ pc = "sale_start"
    /\ LET slvr_int_prop_dtl_sk == Max0({ r.sk : r \in tx.sales })
           etl_nr == Max0({ r.etl_nr : r \in tx.sales }) + 1
       IN  /\ loc' = [loc EXCEPT !.key = slvr_int_prop_dtl_sk, !.etl_nr = etl_nr,
                                 !.ts = clock]
           /\ run' = [run EXCEPT !.gen = etl_nr, !.ret = etl_nr]
    /\ pc' = "prop_start"
    /\ UNCHANGED <<clock, ext, db, tx, tracker, ok_gen>>

\* the cte of prc_slv_int_prop_sls_dlt_pl (lines 517-543): the window's rows in
\* surrogate-key order, latest_record_ind = (dense_rank by sale date desc = 1)
prop_sls_batch(prps, wm) ==
    LET win == { r \in prps : in_window(r, wm) }
        d_rank1(r) == \A o \in win : o.d.addr = r.d.addr => o.d.dt <= r.d.dt
        ord == BySk(win)
    IN  [k \in 1..Len(ord) |->
            [usraddr |-> ord[k].d.addr, prop_sale_dt |-> ord[k].d.dt,
             latest_record_ind |-> d_rank1(ord[k])]]

\* prc_slv_int_prop_sls_dlt_pl lines 511-549; the key counter is the callee's own
\* copy of the argument slvr_int_prop_dtl_sk
prc_slv_int_prop_sls_dlt_pl ==
    /\ pc = "prop_start"
    /\ loc' = [loc EXCEPT !.records = prop_sls_batch(ext.prps, get_last_etl_ts(tracker, T_PRPS)),
                          !.i = 1, !.sk = loc.key]
    /\ pc' = "prop_deactivate"
    /\ UNCHANGED <<clock, ext, db, tx, tracker, run, ok_gen>>

\* sensitivity variant of updquery_match: a deactivation that leaves the address's
\* own rows alone
updquery_match_skips_address(r, usraddr) == r.latest_record_ind /\ r.usraddr # usraddr

\* sensitivity variant of updquery_match: a deactivation without the address
\* condition
updquery_match_any_address(r, usraddr) == r.latest_record_ind

\* the rows updquery touches: latest_record_ind = true and usraddr = %s
updquery_match(r, usraddr) == r.latest_record_ind /\ r.usraddr = usraddr

\* loop body, lines 558-584: next key, lookup of the address's latest rows and,
\* if there are any, their deactivation
prop_sls_deactivate ==
    /\ pc = "prop_deactivate"
    /\ loc.i <= Len(loc.records)
    /\ LET usraddr == loc.records[loc.i].usraddr
           result  == { r \in tx.sales : r.latest_record_ind /\ r.usraddr = usraddr }
       IN  tx' = IF result # {}
                   THEN [tx EXCEPT !.sales =
                           { IF updquery_match(r, usraddr)
                               THEN [r EXCEPT !.latest_record_ind = FALSE] ELSE r : r \in @ }]
                   ELSE tx
    /\ loc' = [loc EXCEPT !.sk = @ + 1]
    /\ pc' = "prop_insert"
    /\ UNCHANGED <<clock, ext, db, tracker, run, ok_gen>>

\* loop body, lines 587-603: the insert
prop_sls_insert ==
    /\ pc = "prop_insert"
    /\ LET row == loc.records[loc.i]
       IN  tx' = [tx EXCEPT !.sales = @ \cup
                    { [sk |-> loc.sk, etl_nr |-> loc.etl_nr, ts |-> loc.ts,
                       usraddr |-> row.usraddr, prop_sale_dt |-> row.prop_sale_dt,
                       latest_record_ind |-> row.latest_record_ind, by |-> "prop"] }]
    /\ loc' = [loc EXCEPT !.i = @ + 1]
    /\ pc' = "prop_deactivate"
    /\ UNCHANGED <<clock, ext, db, tracker, run, ok_gen>>

\* line 606: the first sub-stage's commit
prop_sls_commit ==
    /\ pc = "prop_deactivate"
    /\ loc.i > Len(loc.records)
    /\ db' = tx
    /\ pc' = "prcl_start"
    /\ UNCHANGED <<clock, ext, tx, tracker, loc, run, ok_gen>>

\* the join of prc_slv_int_prcl_sls_dlt_pl (lines 455-473): one row per pair
prcl_sls_batch(prcl, comps, bnz_wm, slv_wm) ==
    { [brnz |-> b.sk, slvr |-> c.sk, prop_sale_dt |-> b.dt] :
        <<b, c>> \in { p \in prcl \X comps :
                         /\ in_window(p[1], bnz_wm)
                         /\ in_window(p[2], slv_wm)
                         /\ p[1].sk = p[2].prcl_fk } }

\* prc_slv_int_prcl_sls_dlt_pl lines 446-486; called with the same
\* slvr_int_prop_dtl_sk argument as the first sub-stage (line 619)
prc_slv_int_prcl_sls_dlt_pl ==
    /\ pc = "prcl_start"
    /\ \E recs \in Orderings(prcl_sls_batch(tx.prcl, ext.comps,
                                            get_last_etl_ts(tracker, T_PRCL),
                                            get_last_etl_ts(tracker, T_COMPS))) :
         loc' = [loc EXCEPT !.records = recs, !.i = 1, !.sk = loc.key]
    /\ pc' = "prcl_loop"
    /\ UNCHANGED <<clock, ext, db, tx, tracker, run, ok_gen>>

\* loop body, lines 488-501: the row's key and columns
prcl_sls_next ==
    /\ pc = "prcl_loop"
    /\ loc.i <= Len(loc.records)
    /\ loc' = [loc EXCEPT !.sk = @ + 1]
    /\ pc' = "prcl_insert"
    /\ UNCHANGED <<clock, ext, db, tx, tracker, run, ok_gen>>

\* loop body, line 503: cursor.execute gets 16 parameters for the 15 placeholders
\* of insert_query, which raises; the exception leaves through every caller
prcl_sls_insert ==
    /\ pc = "prcl_insert"
    /\ tx' = rollback(db, tx)
    /\ pc' = "idle"
    /\ loc' = NoLoc
    /\ run' = [run EXCEPT !.status = "failed", !.at = pc,
                           !.exc = "statement error", !.msg = "statement error"]
    /\ UNCHANGED <<clock, ext, db, tracker, ok_gen>>

\* line 504 and call_slvr_int_prp_dtl line 621 (arguments of upd_lookup_tbl)
prcl_sls_commit ==
    /\ pc = "prcl_loop"
    /\ loc.i > Len(loc.records)
    /\ db' = tx
    /\ loc' = [loc EXCEPT !.wm_nm = T_SALES, !.wm_ts = loc.ts, !.wm_nr = loc.etl_nr]
    /\ pc' = "lookup_read"
    /\ UNCHANGED <<clock, ext, tx, tracker, run, ok_gen>>

\* ------------------------------------------------ external enrichment stage
\* An event of the event-history response as api_info_extract_load_brnx_prc keeps
\* it: [type, name, date, price, price_null, owner]; price_null stands for a
\* missing price (None), in which case price is 0 and unused.
NoEvent ==
    [type |-> Null, name |-> Null, date |-> 0, price |-> 0, price_null |-> TRUE,
     owner |-> Null]

\* sorted(events, key=event_date, reverse=True): stable, equal dates keep their order
RECURSIVE sorted_desc(_)
sorted_desc(events) ==
    IF events = << >> THEN << >>
    ELSE LET k == CHOOSE i \in 1..Len(events) :
                    /\ \A j \in 1..Len(events) : events[j].date <= events[i].date
                    /\ \A j \in 1..(i - 1) : events[j].date < events[i].date
         IN  <<events[k]>> \o
             sorted_desc([j \in 1..(Len(events) - 1) |->
                            IF j < k THEN events[j] ELSE events[j + 1]])

\* the loop of get_valid_event (lines 684-690) from position k on; the result is
\* [kind, ev]: "event" (returned in the loop), "end" (loop ran out, with the two
\* candidates) or "raise" (price > 0 on a missing price)
RECURSIVE gve_loop(_, _, _, _, _)
gve_loop(evs, k, q, primary_event, fallback_event) ==
    IF k > Len(evs)
      THEN [kind |-> "end", ev |-> primary_event, fb |-> fallback_event]
      ELSE LET event == evs[k]
           IN  IF event.type = q.primary_type /\ event.name = q.primary_name
                 THEN IF event.price_null
                        THEN [kind |-> "raise", ev |-> event, fb |-> fallback_event]
                        ELSE IF event.price > 0
                               THEN [kind |-> "event", ev |-> event, fb |-> fallback_event]
                               ELSE gve_loop(evs, k + 1, q, event, fallback_event)
                 ELSE IF /\ q.fallback_type # Null
                         /\ q.fallback_name # Null
                         /\ event.type = q.fallback_type
                         /\ event.name = q.fallback_name
                        THEN gve_loop(evs, k + 1, q, primary_event, event)
                        ELSE gve_loop(evs, k + 1, q, primary_event, fallback_event)

\* get_valid_event (lines 676-692): [kind |-> "event" | "none" | "raise", ev]
get_valid_event(events, primary_type, primary_name, fallback_type, fallback_name) ==
    LET q == [primary_type |-> primary_type, primary_name |-> primary_name,
              fallback_type |-> fallback_type, fallback_name |-> fallback_name]
        l == gve_loop(sorted_desc(events), 1, q, NoEvent, NoEvent)
        pick(e) == IF e = NoEvent THEN [kind |-> "none", ev |-> NoEvent]
                                  ELSE [kind |-> "event", ev |-> e]
    IN  IF l.kind = "raise" THEN [kind |-> "raise", ev |-> NoEvent]
        ELSE IF l.kind = "event" THEN [kind |-> "event", ev |-> l.ev]
        ELSE IF l.ev # NoEvent /\ l.ev.price_null THEN [kind |-> "raise", ev |-> NoEvent]
        ELSE IF l.ev # NoEvent /\ l.ev.price > 0 THEN pick(l.ev)
        ELSE pick(l.fb)

\* lines 794 and 807: the two selections made per property
sale_selection(events) == get_valid_event(events, "SALE", "SOLD", "LISTING", "PENDING SALE")
rental_selection(events) == get_valid_event(events, "RENTAL", "DELISTED FOR RENT", Null, Null)

\* A data-factory load of bronze.brnz_goog_prop_add_dtl, registered in the tracker
\* by the loading pipeline (the app reads this watermark and never writes it).
adf_load_goog(Addrs, rows) ==
    /\ pc = "idle"
    /\ Max0({ r.etl_nr : r \in ext.goog }) < MaxLoads
    /\ \E n \in 1..rows :
       \E f \in [1..n -> Addrs] :
          LET base == Max0({ r.sk : r \in ext.goog })
              g    == Max0({ r.etl_nr : r \in ext.goog }) + 1
          IN  /\ ext' = [ext EXCEPT !.goog = @ \cup
                          { [sk |-> base + k, etl_nr |-> g, ts |-> clock, addr |-> f[k]]
                            : k \in 1..n }]
              /\ tracker' = tracker \cup
                    { upd_lookup_row(upd_lookup_mx_id(tracker), T_GOOG, clock, g) }
    /\ run' = NoRun
    /\ UNCHANGED <<clock, db, tx, pc, loc, ok_gen>>

\* process_bnz_prcl_dtl lines 826-856 and api_info_extract_load_brnx_prc lines
\* 696-720, when the tracker holds a row for brnz_goog_prop_add_dtl
process_bnz_prcl_dtl ==
    /\ pc = "enr_start"
    /\ \E r \in tracker : r.tbl_nm = T_GOOG
    /\ LET bnz_pk == Max0({ r.sk : r \in tx.prcl })
           etl_nr == Max0({ r.etl_nr : r \in tx.prcl })
           wm     == [ts |-> Max0({ r.last_loaded_ts : r \in { x \in tracker : x.tbl_nm = T_GOOG } }),
                      nr |-> Max0({ r.etl_nr : r \in { x \in tracker : x.tbl_nm = T_GOOG } })]
           result_ggl == BySk({ r \in ext.goog : in_window(r, wm) })
       IN  /\ loc' = [loc EXCEPT !.records = result_ggl, !.i = 1, !.sk = bnz_pk,
                                 !.etl_nr = etl_nr + 1, !.ts = clock]
           /\ run' = [run EXCEPT !.gen = etl_nr + 1]
    /\ pc' = "enr_addr"
    /\ UNCHANGED <<clock, ext, db, tx, tracker, ok_gen>>

\* lines 696-715 with no tracker row for brnz_goog_prop_add_dtl: both maxima are
\* None (no COALESCE), the window query is built with "etl_nr = None" and fails
api_info_no_watermark ==
    /\ pc = "enr_start"
    /\ ~ \E r \in tracker : r.tbl_nm = T_GOOG
    /\ tx' = rollback(db, tx)
    /\ pc' = "idle"
    /\ loc' = NoLoc
    /\ run' = [run EXCEPT !.status = "failed", !.at = pc,
                           !.exc = "statement error", !.msg = "statement error"]
    /\ UNCHANGED <<clock, ext, db, tracker, ok_gen>>

\* lines 722-745: next address, the key is incremented, the search call answers
\* with a list of properties (SearchResults: the answers the API may give, each a
\* sequence of [pid, status_code, events, attr])
api_search_address(SearchResults) ==
    /\ pc = "enr_addr"
    /\ loc.i <= Len(loc.records)
    /\ \E srch_res \in SearchResults :
         loc' = [loc EXCEPT !.sk = @ + 1, !.props = srch_res, !.j = 1]
    /\ pc' = "enr_prop"
    /\ UNCHANGED <<clock, ext, db, tx, tracker, run, ok_gen>>

\* the row lines 796-804 / 809-817 insert for a selected event
prcl_row(bnz_pk, etl_nr, ts, res, event) ==
    [sk |-> bnz_pk, etl_nr |-> etl_nr, ts |-> ts, pid |-> res.pid,
     status_cd |-> event.type, sub_status_cd |-> event.name, dt |-> event.date,
     price |-> event.price, price_null |-> event.price_null,
     br |-> res.attr.br, bth |-> (res.attr.bth2 + 1) \div 2, sqft |-> res.attr.sqft,
     yr |-> res.attr.yr, zip |-> res.attr.zip]

\* the rows one property contributes (lines 794-817)
emitted_rows(bnz_pk, etl_nr, ts, res) ==
    LET selected_event == sale_selection(res.events)
        rental_event   == rental_selection(res.events)
    IN  (IF selected_event.kind = "event"
           THEN { prcl_row(bnz_pk, etl_nr, ts, res, selected_event.ev) } ELSE {})
        \cup
        (IF rental_event.kind = "event"
           THEN { prcl_row(bnz_pk, etl_nr, ts, res, rental_event.ev) } ELSE {})

\* lines 747-817: one property of the current address
api_event_history ==
    /\ pc = "enr_prop"
    /\ loc.j <= Len(loc.props)
    /\ LET res == loc.props[loc.j]
       IN  \/ /\ res.status_code # HttpOk
              /\ res.json_body
              /\ tx' = tx
           \/ /\ res.status_code = HttpOk
              /\ sale_selection(res.events).kind # "raise"
              /\ rental_selection(res.events).kind # "raise"
              /\ tx' = [tx EXCEPT !.prcl = @ \cup emitted_rows(loc.sk, loc.etl_nr, loc.ts, res)]
    /\ loc' = [loc EXCEPT !.j = @ + 1]
    /\ UNCHANGED <<clock, ext, db, tracker, pc, run, ok_gen>>

\* lines 794 / 807 when get_valid_event raises (a price that is None), and lines
\* 774-775 when the body of a non-200 response is not JSON: event_res.json(),
\* evaluated for the log line, raises before the continue
api_event_history_raise ==
    /\ pc = "enr_prop"
    /\ loc.j <= Len(loc.props)
    /\ LET res == loc.props[loc.j]
       IN  \/ /\ res.status_code = HttpOk
              /\ \/ sale_selection(res.events).kind = "raise"
                 \/ rental_selection(res.events).kind = "raise"
           \/ /\ res.status_code # HttpOk
              /\ ~ res.json_body
    /\ tx' = rollback(db, tx)
    /\ pc' = "idle"
    /\ loc' = NoLoc
    /\ run' = [run EXCEPT !.status = "failed", !.at = pc,
                           !.exc = "statement error", !.msg = "statement error"]
    /\ UNCHANGED <<clock, ext, db, tracker, ok_gen>>

\* end of the inner loop: back to the next address
api_next_address ==
    /\ pc = "enr_prop"
    /\ loc.j > Len(loc.props)
    /\ loc' = [loc EXCEPT !.i = @ + 1]
    /\ pc' = "enr_addr"
    /\ UNCHANGED <<clock, ext, db, tx, tracker, run, ok_gen>>

\* lines 819-820 and process_bnz_prcl_dtl line 859 (arguments of upd_lookup_tbl)
api_info_commit ==
    /\ pc = "enr_addr"
    /\ loc.i > Len(loc.records)
    /\ db' = tx
    /\ loc' = [loc EXCEPT !.wm_nm = T_PRCL, !.wm_ts = loc.ts, !.wm_nr = loc.etl_nr]
    /\ pc' = "lookup_read"
    /\ UNCHANGED <<clock, ext, tx, tracker, run, ok_gen>>

\* ------------------------------------------- property-to-investor matching
\* flag_info of process_slv_int_prp (lines 362-369)
flag_info(b) ==
    \/ /\ b.status_cd = "SALE"
       /\ b.sub_status_cd \in {"SOLD", "NON_ARMS_LENGTH_TRANSFER",
                               "SOLD_INTER_PORTFOLIO_TRANSFER",
                               "NON_ARMS_LENGTH_INTRA_PORTFOLIO_TRANSFER"}
    \/ /\ b.status_cd = "LISTING"
       /\ b.sub_status_cd \in {"LISTED_SALE", "LISTING_REMOVED", "OTHER", "PENDING_SALE",
                               "PRICE_CHANGE", "RELISTED"}
    \/ /\ b.status_cd = "RENTAL"
       /\ b.sub_status_cd \in {"LISTED_FOR_RENT", "PRICE_CHANGE", "DELISTED_FOR_RENT",
                               "LISTED_RENT"}

\* the ON clause (lines 383-390)
join_on(b, v) ==
    /\ b.br = v.investor_profile.min_prop_attr_br_cnt
    /\ b.bth = v.investor_profile.min_prop_attr_bth_cnt
    /\ b.sqft = v.investor_profile.min_sqft
    /\ b.yr >= v.investor_profile.min_year
    /\ b.zip \in v.investor_profile.list_zips

\* the query of process_slv_int_prp (lines 342-391): windowed bronze rows LEFT JOIN
\* windowed active investor profiles; inv = 0 stands for the NULL of an unmatched row
prp_matches(prcl, inv, brnz_wm, slv_wm) ==
    LET brnz == { b \in prcl : in_window(b, brnz_wm) /\ flag_info(b) }
        slv  == { v \in inv : v.active_flg /\ in_window(v, slv_wm) }
        hit(b) == { v \in slv : join_on(b, v) }
    IN  { [brnz |-> b.sk, inv |-> v.sk, src |-> b] :
            <<b, v>> \in { p \in brnz \X slv : join_on(p[1], p[2]) } }
        \cup { [brnz |-> b.sk, inv |-> 0, src |-> b] : b \in { x \in brnz : hit(x) = {} } }

\* process_slv_int_prp lines 317-411
process_slv_int_prp ==
    /\ pc = "prp_start"
    /\ \E recs \in Orderings(prp_matches(tx.prcl, tx.inv,
                                         get_last_etl_ts(tracker, T_PRCL),
                                         get_last_etl_ts(tracker, T_INV))) :
         LET slvr_int_prop_sk == Max0({ r.sk : r \in tx.prop })
             etl_nr == Max0({ r.etl_nr : r \in tx.prop }) + 1
         IN  /\ loc' = [loc EXCEPT !.records = recs, !.i = 1, !.sk = slvr_int_prop_sk,
                                   !.etl_nr = etl_nr, !.ts = clock]
             /\ run' = [run EXCEPT !.gen = etl_nr]
    /\ pc' = "prp_insert"
    /\ UNCHANGED <<clock, ext, db, tx, tracker, ok_gen>>

\* lines 419-436: one pass of the insert loop
process_slv_int_prp_insert ==
    /\ pc = "prp_insert"
    /\ loc.i <= Len(loc.records)
    /\ LET row == loc.records[loc.i]
           sk  == loc.sk + 1
       IN  /\ tx' = [tx EXCEPT !.prop = @ \cup
                       { [sk |-> sk, etl_nr |-> loc.etl_nr, ts |-> loc.ts,
                          inv_fk |-> row.inv, prcl_fk |-> row.brnz] }]
           /\ loc' = [loc EXCEPT !.sk = sk, !.i = @ + 1]
    /\ UNCHANGED <<clock, ext, db, tracker, pc, run, ok_gen>>

\* lines 438-439
process_slv_int_prp_commit ==
    /\ pc = "prp_insert"
    /\ loc.i > Len(loc.records)
    /\ db' = tx
    /\ loc' = [loc EXCEPT !.wm_nm = T_PROP, !.wm_ts = loc.ts, !.wm_nr = loc.etl_nr]
    /\ pc' = "lookup_read"
    /\ UNCHANGED <<clock, ext, tx, tracker, run, ok_gen>>

\* ------------------------------------------------------ comparables stage
\* process_slv_int_pr_cmps lines 191-260: res_query is not valid SQL (a second
\* "where" closes each sub-select, "in between" in the ON clause), so
\* return_query_res raises on every call and lines 263-307 are never reached
process_slv_int_pr_cmps ==
    /\ pc = "cmps_start"
    /\ tx' = rollback(db, tx)
    /\ pc' = "idle"
    /\ loc' = NoLoc
    /\ run' = [run EXCEPT !.status = "failed", !.at = pc,
                           !.exc = "statement error", !.msg = "statement error"]
    /\ UNCHANGED <<clock, ext, db, tracker, ok_gen>>

\* silver.slvr_int_prop_comps and its watermark are filled outside this app
\* (process_slv_int_pr_cmps cannot, and no function writes that watermark): a
\* load of comparables for rows of bronze.brnz_prcl_prop_sales_dtl
adf_load_comps ==
    /\ pc = "idle"
    /\ Max0({ r.etl_nr : r \in ext.comps }) < MaxLoads
    /\ db.prcl # {}
    /\ \E b \in db.prcl :
          LET base == Max0({ r.sk : r \in ext.comps })
              g    == Max0({ r.etl_nr : r \in ext.comps }) + 1
          IN  /\ ext' = [ext EXCEPT !.comps = @ \cup
                          { [sk |-> base + 1, etl_nr |-> g, ts |-> clock, prcl_fk |-> b.sk] }]
              /\ tracker' = tracker \cup
                    { upd_lookup_row(upd_lookup_mx_id(tracker), T_COMPS, clock, g) }
    /\ run' = NoRun
    /\ UNCHANGED <<clock, db, tx, pc, loc, ok_gen>>

\* ------------------------------------------------------------ specifications
\* the stage a process_key starts in getway (lines 872-941)
K_INV == "process_silver_int_inv_dtl"
K_ENR == "process_bnz_prcl_dtl"
K_PRP == "process_slv_int_prp"
K_CMPS == "process_slv_pr_cmps"
K_SALE == "call_slvr_int_prp_dtl"
K_UPD == "bnz_prps_upd"

getway_inv(lim) == StartRun(K_INV, "inv_start", "inv", lim)
getway_enr(lim) == StartRun(K_ENR, "enr_start", "prcl", lim)
getway_prp(lim) == StartRun(K_PRP, "prp_start", "prop", lim)
getway_cmps(lim) == StartRun(K_CMPS, "cmps_start", Null, lim)
getway_sale(lim) == StartRun(K_SALE, "sale_start", "sales", lim)
getway_upd(lim) == StartRun(K_UPD, "upd_start", Null, lim)

\* ------------------------------------------------------- the HTTP handler
HttpBadRequest == 400
KnownKeys == {K_INV, K_ENR, K_PRP, K_CMPS, K_SALE, K_UPD}

\* str(v) of a query parameter (function_app.py line 16): None becomes "None"
py_str(v) == IF v = Null THEN "None" ELSE v

\* .strip() on the strings requests carry here: blank ones become empty
strip(s) == IF s \in {"", " "} THEN "" ELSE s

\* truth value of a process_key: None and the empty string are false
truthy(v) == v # Null /\ v # ""

\* function_app.py lines 15-26: the process_key the handler ends up with
process_key_of(req) ==
    LET process_key == strip(py_str(req.q))
    IN  IF ~ truthy(process_key) /\ req.body.has THEN req.body.process_key
        ELSE process_key

\* sensitivity variant of getway_not_detected: the else branch raises
getway_not_detected_raises(Requests) ==
    /\ pc = "idle"
    /\ \E req \in Requests :
         /\ truthy(process_key_of(req))
         /\ process_key_of(req) \notin KnownKeys
         /\ run' = [NoRun EXCEPT !.req = req, !.key = process_key_of(req),
                                 !.status = "failed", !.at = "getway",
                                 !.pre = db, !.pre_trk = tracker]
    /\ UNCHANGED <<clock, ext, db, tx, tracker, pc, loc, ok_gen>>

\* function_app.py lines 28-29 and getway lines 871-945 for a key that is none of
\* the six: the else branch logs and returns None; no connection is opened
getway_not_detected(Requests) ==
    /\ pc = "idle"
    /\ \E req \in Requests :
         /\ truthy(process_key_of(req))
         /\ process_key_of(req) \notin KnownKeys
         /\ run' = [NoRun EXCEPT !.req = req, !.key = process_key_of(req),
                                 !.status = "returned", !.pre = db, !.pre_trk = tracker]
    /\ UNCHANGED <<clock, ext, db, tx, tracker, pc, loc, ok_gen>>

\* function_app.py lines 28 and 37-41: no process_key, getway is not called
rehouzd_function_no_key(Requests) ==
    /\ pc = "idle"
    /\ \E req \in Requests :
         /\ ~ truthy(process_key_of(req))
         /\ run' = [NoRun EXCEPT !.req = req, !.key = process_key_of(req),
                                 !.status = "prompt", !.pre = db, !.pre_trk = tracker]
    /\ UNCHANGED <<clock, ext, db, tx, tracker, pc, loc, ok_gen>>

\* getway has handed its result to the handler: a synchronous stage returned or
\* raised, the background stage's trigger returned the generation or raised
\* before the thread was started
getway_returned(r, at) ==
    \/ r.status = "returned"
    \/ r.key # K_SALE /\ r.status = "ok"
    \/ r.key = K_SALE /\ r.status \in {"running", "ok"} /\ at # "sale_start"
    \/ r.key = K_SALE /\ r.status = "failed" /\ r.at # "sale_start"
getway_raised(r) ==
    r.status = "failed" /\ (r.key = K_SALE => r.at = "sale_start")

\* function_app.py lines 28-46: the response to the request of run r, with the
\* running invocation at position at; status_code 0: not answered yet; text: the
\* str(err) the error message embeds
rehouzd_function(r, at) ==
    IF r.status = "prompt"
      THEN [status_code |-> HttpBadRequest, body |-> "prompt", value |-> NoGen, text |-> Null]
    ELSE IF getway_raised(r)
      THEN [status_code |-> HttpBadRequest, body |-> "error", value |-> NoGen, text |-> r.msg]
    ELSE IF getway_returned(r, at)
      THEN IF r.key = K_SALE /\ r.ret > 0
             THEN [status_code |-> HttpOk, body |-> "json", value |-> r.ret, text |-> Null]
             ELSE [status_code |-> HttpOk, body |-> "hello", value |-> NoGen, text |-> Null]
    ELSE [status_code |-> 0, body |-> Null, value |-> NoGen, text |-> Null]

\* function_app.py lines 14-29 for process_key bnz_prps_upd: the request's
\* parameters travel to getway as dic; for a parameter the request does not
\* carry dic.get(name, None) is None, written NoValue among the integer values
NoValue == 0 - 1
rehouzd_function_upd(Dics, lim) ==
    /\ pc = "idle"
    /\ clock < lim
    /\ clock' = clock + 1
    /\ pc' = "upd_start"
    /\ loc' = NoLoc
    /\ \E dic \in Dics :
         run' = [NoRun EXCEPT !.req = [q |-> K_UPD, body |-> NoBody, dic |-> dic],
                                 !.key = K_UPD, !.status = "running",
                                 !.pre = db, !.pre_trk = tracker]
    /\ UNCHANGED <<ext, db, tx, tracker, ok_gen>>

\* getway lines 935-939 and bnz_prps_upd lines 628-650: the two values of dic go
\* to upd_lookup_tbl as they are, None included
getway_bnz_prps_upd ==
    /\ pc = "upd_start"
    /\ loc' = [loc EXCEPT !.wm_nm = T_PRPS,
                          !.wm_ts = run.req.dic.etl_recorded_gmts,
                          !.wm_nr = run.req.dic.etl_nr]
    /\ pc' = "lookup_read"
    /\ UNCHANGED <<clock, ext, db, tx, tracker, run, ok_gen>>

\* upd_lookup_tbl line 62 with a None among the values, on a registry whose
\* columns are declared NOT NULL (the table's declaration is not part of the
\* sources; on nullable columns upd_lookup_tbl_insert applies): the statement
\* raises, lines 65-67 re-raise
upd_lookup_tbl_insert_rejected ==
    /\ pc = "lookup_insert"
    /\ (loc.wm_ts = NoValue \/ loc.wm_nr = NoValue)
    /\ tx' = rollback(db, tx)
    /\ pc' = "idle"
    /\ loc' = NoLoc
    /\ run' = [run EXCEPT !.status = "failed", !.at = pc,
                           !.exc = "statement error", !.msg = "statement error"]
    /\ UNCHANGED <<clock, ext, db, tracker, ok_gen>>

\* input domains
PayloadOf(inv, addr, dt, sqft, yr) ==
    [inv |-> inv, addr |-> addr, dt |-> dt, br |-> 3, bth2 |-> 4, sqft |-> sqft,
     yr |-> yr, zip |-> "z1"]
Payload(inv, addr, dt) == PayloadOf(inv, addr, dt, 1200, 1990)

Attr == [br |-> 3, bth2 |-> 3, sqft |-> 1200, yr |-> 1995, zip |-> "z1"]
\* a property of the search answer with the answer of its event-history call:
\* status code, whether the body parses as JSON, and the events of the body
PropBody(pid, code, events, json_body) ==
    [pid |-> pid, status_code |-> code, json_body |-> json_body, events |-> events,
     attr |-> Attr]
Prop(pid, code, events) == PropBody(pid, code, events, TRUE)
Ev(type, name, date, price) ==
    [type |-> type, name |-> name, date |-> date, price |-> price, price_null |-> FALSE,
     owner |-> "o1"]
Sold == Ev("SALE", "SOLD", 2, 100)
Rent == Ev("RENTAL", "DELISTED FOR RENT", 1, 10)
NoPrice == [Sold EXCEPT !.price = 0, !.price_null = TRUE]

Investors == {"Acme", "Bolt"}
\* the etl_recorded_gmts and etl_nr values a caller of bnz_prps_upd passes
ParamTs == {1, 2}
ParamNr == {1, 2}

\* -- aggregation stage alone
LoadInv == adf_load_prps({ Payload(n, "a1", 1) : n \in Investors }, MaxBatch)

NextInv ==
    \/ LoadInv
    \/ getway_inv(MaxClock)
    \/ process_slv_int_inv
    \/ upsert_table_update
    \/ upsert_table_commit_update
    \/ upsert_table_insert
    \/ upsert_table_commit
    \/ upd_lookup_tbl_read
    \/ upd_lookup_tbl_insert
    \/ upd_lookup_tbl_commit
    \/ end_process
    \/ Fail

SpecInv == Init /\ [][NextInv]_vars

\* -- aggregation stage over raw rows whose square footage and year built lie on
\* both sides of zero and of a bucket boundary
SqftValues == {1205, 5, 0 - 5}
YearValues == {1990, 0 - 15}
LoadBkt ==
    adf_load_prps({ PayloadOf("Acme", "a1", 1, q, y) : q \in SqftValues, y \in YearValues },
                  MaxBatch)

NextBkt ==
    \/ LoadBkt
    \/ getway_inv(MaxClock)
    \/ process_slv_int_inv
    \/ upsert_table_update
    \/ upsert_table_commit_update
    \/ upsert_table_insert
    \/ upsert_table_commit
    \/ upd_lookup_tbl_read
    \/ upd_lookup_tbl_insert
    \/ upd_lookup_tbl_commit
    \/ end_process
    \/ Fail

SpecBkt == Init /\ [][NextBkt]_vars

\* -- sale-history stage with its raw watermark
LoadSale ==
    adf_load_prps({ Payload("Acme", "a1", 2), Payload("Acme", "a1", 1) }, MaxBatch)

NextSale ==
    \/ LoadSale
    \/ getway_upd(MaxClock)
    \/ bnz_prps_upd(ParamTs, ParamNr)
    \/ getway_sale(MaxClock)
    \/ getway_call_slvr_int_prp_dtl
    \/ prc_slv_int_prop_sls_dlt_pl
    \/ prop_sls_deactivate
    \/ prop_sls_insert
    \/ prop_sls_commit
    \/ prc_slv_int_prcl_sls_dlt_pl
    \/ prcl_sls_commit
    \/ upd_lookup_tbl_read
    \/ upd_lookup_tbl_insert
    \/ upd_lookup_tbl_commit
    \/ end_process
    \/ Fail

SpecSale == Init /\ [][NextSale]_vars

\* -- sale-history stage over two addresses
AddrBatch == 3

LoadAddr ==
    adf_load_prps({ Payload("Acme", "a1", 1), Payload("Acme", "a2", 1) }, AddrBatch)

NextAddr ==
    \/ LoadAddr
    \/ getway_upd(MaxClock)
    \/ bnz_prps_upd(ParamTs, ParamNr)
    \/ getway_sale(MaxClock)
    \/ getway_call_slvr_int_prp_dtl
    \/ prc_slv_int_prop_sls_dlt_pl
    \/ prop_sls_deactivate
    \/ prop_sls_insert
    \/ prop_sls_commit
    \/ prc_slv_int_prcl_sls_dlt_pl
    \/ prcl_sls_commit
    \/ upd_lookup_tbl_read
    \/ upd_lookup_tbl_insert
    \/ upd_lookup_tbl_commit
    \/ end_process
    \/ Fail

SpecAddr == Init /\ [][NextAddr]_vars

\* -- enrichment stage
SearchEnr ==
    { << >>,
      <<Prop("p1", HttpOk, <<Sold, Rent>>)>>,
      <<Prop("p1", HttpOk, <<Sold>>), Prop("p2", HttpOk, <<Sold>>)>>,
      <<Prop("p1", 500, <<Sold>>), Prop("p2", HttpOk, <<Rent>>)>>,
      <<PropBody("p1", 502, << >>, FALSE), Prop("p2", HttpOk, <<Rent>>)>>,
      <<Prop("p1", HttpOk, <<NoPrice>>)>> }

NextEnr ==
    \/ adf_load_goog({"a1"}, MaxBatch)
    \/ getway_enr(MaxClock)
    \/ process_bnz_prcl_dtl
    \/ api_info_no_watermark
    \/ api_search_address(SearchEnr)
    \/ api_event_history
    \/ api_event_history_raise
    \/ api_next_address
    \/ api_info_commit
    \/ upd_lookup_tbl_read
    \/ upd_lookup_tbl_insert
    \/ upd_lookup_tbl_commit
    \/ end_process
    \/ Fail

SpecEnr == Init /\ [][NextEnr]_vars

\* -- every stage of the dispatcher
LoadAll == adf_load_prps({ Payload("Acme", "a1", 1) }, MaxBatch)
SearchAll == { <<Prop("p1", HttpOk, <<Sold>>)>>, <<Prop("p1", HttpOk, <<NoPrice>>)>> }

Next ==
    \/ LoadAll
    \/ adf_load_goog({"a1"}, MaxBatch)
    \/ adf_load_comps
    \/ getway_inv(MaxClockAll)
    \/ getway_enr(MaxClockAll)
    \/ getway_prp(MaxClockAll)
    \/ getway_cmps(MaxClockAll)
    \/ getway_sale(MaxClockAll)
    \/ getway_upd(MaxClockAll)
    \/ process_slv_int_inv
    \/ upsert_table_update
    \/ upsert_table_commit_update
    \/ upsert_table_insert
    \/ upsert_table_commit
    \/ process_bnz_prcl_dtl
    \/ api_info_no_watermark
    \/ api_search_address(SearchAll)
    \/ api_event_history
    \/ api_event_history_raise
    \/ api_next_address
    \/ api_info_commit
    \/ process_slv_int_prp
    \/ process_slv_int_prp_insert
    \/ process_slv_int_prp_commit
    \/ process_slv_int_pr_cmps
    \/ getway_call_slvr_int_prp_dtl
    \/ prc_slv_int_prop_sls_dlt_pl
    \/ prop_sls_deactivate
    \/ prop_sls_insert
    \/ prop_sls_commit
    \/ prc_slv_int_prcl_sls_dlt_pl
    \/ prcl_sls_next
    \/ prcl_sls_insert
    \/ prcl_sls_commit
    \/ bnz_prps_upd(ParamTs, ParamNr)
    \/ upd_lookup_tbl_read
    \/ upd_lookup_tbl_insert
    \/ upd_lookup_tbl_commit
    \/ end_process
    \/ Fail

Spec == Init /\ [][Next]_vars

\* -- the sale-history composition with both sub-stages fed; only the exceptions
\* the code raises by itself, no database failures
NextHist ==
    \/ adf_load_prps({ Payload("Acme", "a1", 1) }, HistBatch)
    \/ adf_load_goog({"a1"}, HistBatch)
    \/ adf_load_comps
    \/ getway_enr(MaxClockHist)
    \/ getway_sale(MaxClockHist)
    \/ getway_upd(MaxClockHist)
    \/ process_bnz_prcl_dtl
    \/ api_info_no_watermark
    \/ api_search_address(SearchAll)
    \/ api_event_history
    \/ api_event_history_raise
    \/ api_next_address
    \/ api_info_commit
    \/ getway_call_slvr_int_prp_dtl
    \/ prc_slv_int_prop_sls_dlt_pl
    \/ prop_sls_deactivate
    \/ prop_sls_insert
    \/ prop_sls_commit
    \/ prc_slv_int_prcl_sls_dlt_pl
    \/ prcl_sls_next
    \/ prcl_sls_insert
    \/ prcl_sls_commit
    \/ bnz_prps_upd(ParamTs, ParamNr)
    \/ upd_lookup_tbl_read
    \/ upd_lookup_tbl_insert
    \/ upd_lookup_tbl_commit
    \/ end_process

SpecHist == Init /\ [][NextHist]_vars

\* -- the matching stage with the two stages that feed it
LoadMatch == adf_load_prps({ Payload("Acme", "a1", 1) }, MaxBatch)

NextMatch ==
    \/ LoadMatch
    \/ adf_load_goog({"a1"}, HistBatch)
    \/ getway_inv(MaxClockHist)
    \/ getway_enr(MaxClockHist)
    \/ getway_prp(MaxClockHist)
    \/ process_slv_int_inv
    \/ upsert_table_update
    \/ upsert_table_commit_update
    \/ upsert_table_insert
    \/ upsert_table_commit
    \/ process_bnz_prcl_dtl
    \/ api_info_no_watermark
    \/ api_search_address(SearchAll)
    \/ api_event_history
    \/ api_event_history_raise
    \/ api_next_address
    \/ api_info_commit
    \/ process_slv_int_prp
    \/ process_slv_int_prp_insert
    \/ process_slv_int_prp_commit
    \/ upd_lookup_tbl_read
    \/ upd_lookup_tbl_insert
    \/ upd_lookup_tbl_commit
    \/ end_process
    \/ Fail

SpecMatch == Init /\ [][NextMatch]_vars

\* -- event selection inside the enrichment stage: one address, one property, the
\* event-history answer drawn from every list of at most MaxEvents events
MaxEvents == 3
MaxClockGve == 2

EventUniverse ==
    { Ev("SALE", "SOLD", d, p) : d \in 1..2, p \in {0, 100} }
    \cup { Ev("LISTING", "PENDING SALE", d, p) : d \in 1..2, p \in {0, 150} }
    \cup { NoPrice, Rent }

EventLists == UNION { [1..n -> EventUniverse] : n \in 0..MaxEvents }

SearchGve ==
    { <<Prop("p1", HttpOk, evs)>> : evs \in EventLists } \cup { <<Prop("p1", 500, << >>)>> }

NextGve ==
    \/ adf_load_goog({"a1"}, HistBatch)
    \/ getway_enr(MaxClockGve)
    \/ process_bnz_prcl_dtl
    \/ api_info_no_watermark
    \/ api_search_address(SearchGve)
    \/ api_event_history
    \/ api_event_history_raise
    \/ api_next_address
    \/ api_info_commit
    \/ upd_lookup_tbl_read
    \/ upd_lookup_tbl_insert
    \/ upd_lookup_tbl_commit
    \/ end_process
    \/ Fail

SpecGve == Init /\ [][NextGve]_vars

\* -- the HTTP handler in front of a synchronous stage with data (aggregation), a
\* synchronous stage without (advance-raw-watermark), the background stage, and
\* requests with an unknown key or with none
HttpRequests ==
    { Request(Null, NoBody),
      Request("", NoBody),
      Request(" ", [has |-> TRUE, process_key |-> Null]),
      Request("", [has |-> TRUE, process_key |-> ""]),
      Request("", [has |-> TRUE, process_key |-> "no_such_key"]),
      Request("no_such_key", NoBody) }

NextHttp ==
    \/ LoadSale
    \/ getway_not_detected(HttpRequests)
    \/ rehouzd_function_no_key(HttpRequests)
    \/ getway_inv(MaxClock)
    \/ create_connection_fails
    \/ process_slv_int_inv
    \/ upsert_table_update
    \/ upsert_table_commit_update
    \/ upsert_table_insert
    \/ upsert_table_commit
    \/ getway_upd(MaxClock)
    \/ bnz_prps_upd(ParamTs, ParamNr)
    \/ getway_sale(MaxClock)
    \/ getway_call_slvr_int_prp_dtl
    \/ prc_slv_int_prop_sls_dlt_pl
    \/ prop_sls_deactivate
    \/ prop_sls_insert
    \/ prop_sls_commit
    \/ prc_slv_int_prcl_sls_dlt_pl
    \/ prcl_sls_commit
    \/ upd_lookup_tbl_read
    \/ upd_lookup_tbl_insert
    \/ upd_lookup_tbl_commit
    \/ end_process
    \/ Fail

SpecHttp == Init /\ [][NextHttp]_vars

\* -- advance-raw-watermark behind the HTTP handler, with and without its
\* parameters
UpdDics ==
    [etl_recorded_gmts : ParamTs \cup {NoValue}, etl_nr : ParamNr \cup {NoValue}]

NextUpd ==
    \/ rehouzd_function_upd(UpdDics, MaxClockAll)
    \/ create_connection_fails
    \/ getway_bnz_prps_upd
    \/ upd_lookup_tbl_read
    \/ upd_lookup_tbl_insert
    \/ upd_lookup_tbl_insert_rejected
    \/ upd_lookup_tbl_commit
    \/ end_process
    \/ Fail

SpecUpd == Init /\ [][NextUpd]_vars

\* ------------------------------------------------- concurrent invocations
\* getway returns to the caller right after thread.start() (lines 925-933), so the
\* background sale-history task runs while later requests are served; every
\* invocation has its own connection (READ COMMITTED: a statement sees the
\* committed rows and the connection's own changes). Here pc, loc, run and tx are
\* functions of the invocation slot; tx[p] is the open transaction of slot p:
\* the sale rows it inserted (ins) and the committed sale rows it switched off
\* (off). ext.keys tells whether the tables declare tbl_id and
\* slvr_int_prop_dtl_sk as keys; the declarations are not part of the sources.
Slots == {1, 2}
MaxClockConc == 4
NoTx == [ins |-> {}, off |-> {}]

InitConc ==
    /\ clock = 2
    /\ \E keys \in BOOLEAN :
       \E n \in 1..2 :
          ext = [prps |-> { [sk |-> k, etl_nr |-> 1, ts |-> 1, d |-> Payload("Acme", "a1", k)]
                            : k \in 1..n },
                 goog |-> {}, comps |-> {}, keys |-> keys]
    /\ db = [inv |-> {}, prop |-> {}, sales |-> {}, prcl |-> {}]
    /\ tx = [p \in Slots |-> NoTx]
    /\ tracker = { upd_lookup_row(1, T_PRPS, 1, 1) }
    /\ pc = [p \in Slots |-> "idle"]
    /\ loc = [p \in Slots |-> NoLoc]
    /\ run = [p \in Slots |-> NoRun]
    /\ ok_gen = [t \in DataTables |-> NoGen]

\* the sale-event table as the connection of slot p sees it
conn_sales(p) ==
    { IF r \in tx[p].off THEN [r EXCEPT !.latest_record_ind = FALSE] ELSE r : r \in db.sales }
    \cup tx[p].ins

\* conn.commit() of slot p applied to the committed sale-event table
committed_sales(p) == conn_sales(p)

\* getway lines 896-933 for a request served in slot p: key and generation are
\* read from the committed table, the thread is started, the generation returned
conc_getway_call_slvr_int_prp_dtl(p) ==
    /\ pc[p] = "idle"
    /\ clock < MaxClockConc
    /\ clock' = clock + 1
    /\ LET slvr_int_prop_dtl_sk == Max0({ r.sk : r \in db.sales })
           etl_nr == Max0({ r.etl_nr : r \in db.sales }) + 1
       IN  /\ loc' = [loc EXCEPT ![p] = [NoLoc EXCEPT !.key = slvr_int_prop_dtl_sk,
                                                     !.etl_nr = etl_nr, !.ts = clock]]
           /\ run' = [run EXCEPT ![p] = [NoRun EXCEPT !.req = Request(K_SALE, NoBody),
                                                     !.key = K_SALE, !.status = "running",
                                                     !.tbl = "sales", !.gen = etl_nr,
                                                     !.ret = etl_nr, !.at = "thread",
                                                     !.pre = db, !.pre_trk = tracker]]
    /\ pc' = [pc EXCEPT ![p] = "prop_start"]
    /\ tx' = [tx EXCEPT ![p] = NoTx]
    /\ UNCHANGED <<ext, db, tracker, ok_gen>>

\* getway lines 935-939 and bnz_prps_upd for a request served in slot p
conc_bnz_prps_upd(p, Tss, Nrs) ==
    /\ pc[p] = "idle"
    /\ clock < MaxClockConc
    /\ clock' = clock + 1
    /\ \E t \in Tss, n \in Nrs :
         loc' = [loc EXCEPT ![p] = [NoLoc EXCEPT !.wm_nm = T_PRPS, !.wm_ts = t, !.wm_nr = n]]
    /\ run' = [run EXCEPT ![p] = [NoRun EXCEPT !.req = Request(K_UPD, NoBody),
                                              !.key = K_UPD, !.status = "running",
                                              !.pre = db, !.pre_trk = tracker]]
    /\ pc' = [pc EXCEPT ![p] = "lookup_read"]
    /\ tx' = [tx EXCEPT ![p] = NoTx]
    /\ UNCHANGED <<ext, db, tracker, ok_gen>>

\* an exception in slot p: logged and re-raised by every caller, the connection
\* is dropped with its open transaction
conc_raise(p) ==
    /\ tx' = [tx EXCEPT ![p] = NoTx]
    /\ pc' = [pc EXCEPT ![p] = "idle"]
    /\ loc' = [loc EXCEPT ![p] = NoLoc]
    /\ run' = [run EXCEPT ![p] = [@ EXCEPT !.status = "failed", !.at = pc[p],
                                           !.exc = "statement error",
                                           !.msg = "statement error"]]
    /\ UNCHANGED <<clock, ext, db, tracker, ok_gen>>

\* prc_slv_int_prop_sls_dlt_pl lines 511-549 in slot p
conc_prc_slv_int_prop_sls_dlt_pl(p) ==
    /\ pc[p] = "prop_start"
    /\ loc' = [loc EXCEPT ![p] =
                 [@ EXCEPT !.records = prop_sls_batch(ext.prps, get_last_etl_ts(tracker, T_PRPS)),
                           !.i = 1, !.sk = loc[p].key]]
    /\ pc' = [pc EXCEPT ![p] = "prop_deactivate"]
    /\ UNCHANGED <<clock, ext, db, tx, tracker, run, ok_gen>>

\* loop body, lines 558-584, in slot p; the UPDATE waits while another
\* connection holds an uncommitted update of a row it matches
conc_prop_sls_deactivate(p) ==
    /\ pc[p] = "prop_deactivate"
    /\ loc[p].i <= Len(loc[p].records)
    /\ LET usraddr == loc[p].records[loc[p].i].usraddr
           result  == { r \in conn_sales(p) : r.latest_record_ind /\ r.usraddr = usraddr }
       IN  /\ \A q \in Slots \ {p} : \A r \in tx[q].off : ~ updquery_match(r, usraddr)
           /\ tx' = IF result # {}
                      THEN [tx EXCEPT ![p] =
                              [ins |-> { IF updquery_match(r, usraddr)
                                           THEN [r EXCEPT !.latest_record_ind = FALSE]
                                           ELSE r : r \in tx[p].ins },
                               off |-> tx[p].off \cup
                                         { r \in db.sales : updquery_match(r, usraddr) }]]
                      ELSE tx
    /\ loc' = [loc EXCEPT ![p] = [@ EXCEPT !.sk = @ + 1]]
    /\ pc' = [pc EXCEPT ![p] = "prop_insert"]
    /\ UNCHANGED <<clock, ext, db, tracker, run, ok_gen>>

\* loop body, lines 587-603, in slot p; with a declared key the INSERT waits for
\* another connection's uncommitted row of the same key
conc_prop_sls_insert(p) ==
    /\ pc[p] = "prop_insert"
    /\ ext.keys => /\ \A r \in db.sales : r.sk # loc[p].sk
                   /\ \A q \in Slots \ {p} : \A r \in tx[q].ins : r.sk # loc[p].sk
    /\ LET row == loc[p].records[loc[p].i]
       IN  tx' = [tx EXCEPT ![p].ins = @ \cup
                    { [sk |-> loc[p].sk, etl_nr |-> loc[p].etl_nr, ts |-> loc[p].ts,
                       usraddr |-> row.usraddr, prop_sale_dt |-> row.prop_sale_dt,
                       latest_record_ind |-> row.latest_record_ind, by |-> "prop"] }]
    /\ loc' = [loc EXCEPT ![p] = [@ EXCEPT !.i = @ + 1]]
    /\ pc' = [pc EXCEPT ![p] = "prop_deactivate"]
    /\ UNCHANGED <<clock, ext, db, tracker, run, ok_gen>>

\* the same INSERT on a table with a declared key that already holds the key
conc_prop_sls_insert_duplicate(p) ==
    /\ pc[p] = "prop_insert"
    /\ ext.keys
    /\ \E r \in db.sales : r.sk = loc[p].sk
    /\ conc_raise(p)

\* line 606 in slot p
conc_prop_sls_commit(p) ==
    /\ pc[p] = "prop_deactivate"
    /\ loc[p].i > Len(loc[p].records)
    /\ db' = [db EXCEPT !.sales = committed_sales(p)]
    /\ tx' = [tx EXCEPT ![p] = NoTx]
    /\ pc' = [pc EXCEPT ![p] = "prcl_start"]
    /\ UNCHANGED <<clock, ext, tracker, loc, run, ok_gen>>

\* prc_slv_int_prcl_sls_dlt_pl in slot p: an empty join commits (line 504) and
\* call_slvr_int_prp_dtl goes on to upd_lookup_tbl (line 621); a row of the join
\* raises at its insert (line 503)
conc_prc_slv_int_prcl_sls_dlt_pl(p) ==
    /\ pc[p] = "prcl_start"
    /\ IF prcl_sls_batch(db.prcl, ext.comps, get_last_etl_ts(tracker, T_PRCL),
                         get_last_etl_ts(tracker, T_COMPS)) = {}
         THEN /\ loc' = [loc EXCEPT ![p] = [@ EXCEPT !.wm_nm = T_SALES, !.wm_ts = loc[p].ts,
                                                     !.wm_nr = loc[p].etl_nr]]
              /\ pc' = [pc EXCEPT ![p] = "lookup_read"]
              /\ UNCHANGED <<clock, ext, db, tx, tracker, run, ok_gen>>
         ELSE conc_raise(p)

\* upd_lookup_tbl lines 41-55 in slot p: max(tbl_id) of the committed rows
conc_upd_lookup_tbl_read(p) ==
    /\ pc[p] = "lookup_read"
    /\ loc' = [loc EXCEPT ![p] = [@ EXCEPT !.mx_id = upd_lookup_mx_id(tracker)]]
    /\ pc' = [pc EXCEPT ![p] = "lookup_insert"]
    /\ UNCHANGED <<clock, ext, db, tx, tracker, run, ok_gen>>

\* upd_lookup_tbl lines 57-62 in slot p; with a declared key the INSERT waits for
\* another connection's uncommitted row of the same tbl_id
conc_upd_lookup_tbl_insert(p) ==
    /\ pc[p] = "lookup_insert"
    /\ ext.keys => /\ \A r \in tracker : r.tbl_id # loc[p].mx_id
                   /\ \A q \in Slots \ {p} : \A r \in loc[q].pending : r.tbl_id # loc[p].mx_id
    /\ loc' = [loc EXCEPT ![p] = [@ EXCEPT !.pending =
                 { upd_lookup_row(loc[p].mx_id, loc[p].wm_nm, loc[p].wm_ts, loc[p].wm_nr) }]]
    /\ pc' = [pc EXCEPT ![p] = "lookup_commit"]
    /\ UNCHANGED <<clock, ext, db, tx, tracker, run, ok_gen>>

\* the same INSERT on a registry with a declared key that already holds tbl_id
conc_upd_lookup_tbl_insert_duplicate(p) ==
    /\ pc[p] = "lookup_insert"
    /\ ext.keys
    /\ \E r \in tracker : r.tbl_id = loc[p].mx_id
    /\ conc_raise(p)

\* upd_lookup_tbl line 63 in slot p
conc_upd_lookup_tbl_commit(p) ==
    /\ pc[p] = "lookup_commit"
    /\ tracker' = tracker \cup loc[p].pending
    /\ db' = [db EXCEPT !.sales = committed_sales(p)]
    /\ tx' = [tx EXCEPT ![p] = NoTx]
    /\ loc' = [loc EXCEPT ![p] = [@ EXCEPT !.pending = {}]]
    /\ run' = [run EXCEPT ![p] = [@ EXCEPT !.n_adv = @ + 1]]
    /\ pc' = [pc EXCEPT ![p] = "end"]
    /\ UNCHANGED <<clock, ext, ok_gen>>

\* end_process in slot p, and the stage function returns
conc_end_process(p) ==
    /\ pc[p] = "end"
    /\ pc' = [pc EXCEPT ![p] = "idle"]
    /\ loc' = [loc EXCEPT ![p] = NoLoc]
    /\ run' = [run EXCEPT ![p] = [@ EXCEPT !.status = "ok"]]
    /\ UNCHANGED <<clock, ext, db, tx, tracker, ok_gen>>

NextConc ==
    \E p \in Slots :
       \/ conc_getway_call_slvr_int_prp_dtl(p)
       \/ conc_bnz_prps_upd(p, ParamTs, ParamNr)
       \/ conc_prc_slv_int_prop_sls_dlt_pl(p)
       \/ conc_prop_sls_deactivate(p)
       \/ conc_prop_sls_insert(p)
       \/ conc_prop_sls_insert_duplicate(p)
       \/ conc_prop_sls_commit(p)
       \/ conc_prc_slv_int_prcl_sls_dlt_pl(p)
       \/ conc_upd_lookup_tbl_read(p)
       \/ conc_upd_lookup_tbl_insert(p)
       \/ conc_upd_lookup_tbl_insert_duplicate(p)
       \/ conc_upd_lookup_tbl_commit(p)
       \/ conc_end_process(p)

SpecConc == InitConc /\ [][NextConc]_vars

\* ---------------------------------------------------------------- properties
UpsertPcs == {"upsert_update", "upsert_commit1", "upsert_insert"}

\* the stored rows of one generation, and the latest rows of one address
GenRows(tbl, g) == { r \in tbl : r.etl_nr = g }
LatestOf(sales, a) == { r \in sales : r.usraddr = a /\ r.latest_record_ind }

\* C1: a run of upsert_table that fails anywhere before its final commit leaves
\* the committed investor table exactly as it was before the batch (no active
\* indicator changed, no row of the new generation stored).
C1_UpsertLeavesPreBatchState ==
    (run.key = K_INV /\ run.status = "failed" /\ run.at \in UpsertPcs)
        => db.inv = run.pre.inv

\* C2: the generation taken by a successful run on a table is exactly one more
\* than the generation taken by the previous successful run on that table.
C2_GenerationPlusOnePerSuccess ==
    (run.status = "ok" /\ run.tbl \in DataTables /\ run.prev_ok # NoGen)
        => run.gen = run.prev_ok + 1

\* C3: after a completed sale-history upsert, every address that had a row in the
\* batch has exactly one stored row with latest_record_ind true, and it is the
\* last row of that address the batch processed (the one with the highest key).
C3_ExactlyOneLatestPerBatchAddress ==
    (run.key = K_SALE /\ run.status = "ok")
        => \A a \in { r.usraddr : r \in GenRows(db.sales, run.gen) } :
              LET mine == { r \in GenRows(db.sales, run.gen) : r.usraddr = a }
                  last == CHOOSE r \in mine : \A o \in mine : o.sk <= r.sk
              IN  LatestOf(db.sales, a) = {last}

C5_EnrichmentKeysDistinct ==
    \A r1, r2 \in db.prcl : (r1.etl_nr = r2.etl_nr /\ r1.sk = r2.sk) => r1 = r2

C7_WatermarkIsAStoredPair ==
    \A t \in TableNames :
        LET rows == { r \in tracker : r.tbl_nm = t }
            wm   == get_last_etl_ts(tracker, t)
        IN  IF rows = {}
              THEN wm = [ts |-> Epoch, nr |-> 0]
              ELSE \E r \in rows : wm = [ts |-> r.last_loaded_ts, nr |-> r.etl_nr]

\* C8: the first run of the sale-history stage on an empty registry selects every
\* row of its input table.
C8_FirstRunSelectsAllRows ==
    (pc = "prop_deactivate" /\ loc.i = 1 /\ run.pre_trk = {})
        => Len(loc.records) = Cardinality(ext.prps)

\* C9: a successful stage run has committed exactly one registry row, and at that
\* commit nothing else was left uncommitted: the stage's data rows were committed
\* before.
C9_OneAdvanceAfterDataCommit ==
    run.status = "ok"
        => /\ run.n_adv = 1
           /\ run.adv_clean
           /\ run.pre_trk \subseteq tracker
           /\ Cardinality(tracker \ run.pre_trk) = 1

\* a successful aggregation run that stored rows and appended its registry row
C9_Witness ==
    /\ run.status = "ok"
    /\ run.key = K_INV
    /\ GenRows(db.inv, run.gen) # {}
    /\ \E r \in tracker \ run.pre_trk : r.tbl_nm = T_INV /\ r.etl_nr = run.gen

\* C10: a run that fails before the registry row of its advance is committed
\* leaves the registry as it was, so get_last_etl_ts answers as before the run
\* for every table.
C10_FailedRunKeepsRegistry ==
    (run.status = "failed" /\ run.at # "end")
        => /\ tracker = run.pre_trk
           /\ \A t \in TableNames :
                 get_last_etl_ts(tracker, t) = get_last_etl_ts(run.pre_trk, t)

\* an aggregation run that failed in its insert loop, after the deactivation was
\* committed, with a registry that already held rows
C10_Witness ==
    /\ run.status = "failed"
    /\ run.key = K_INV
    /\ run.at = "upsert_insert"
    /\ run.pre_trk # {}
    /\ db.inv # run.pre.inv

C12_WindowStartsAfterWatermark ==
    (pc = "prop_deactivate" /\ loc.i = 1 /\ \E u \in tracker : u.tbl_nm = T_PRPS)
        => LET wm == get_last_etl_ts(tracker, T_PRPS)
           IN  Len(loc.records) <=
                 Cardinality({ r \in ext.prps : r.etl_nr = wm.nr /\ r.ts > wm.ts })

\* C13: a second matching run with no advance of either upstream watermark since
\* the last completed matching run finds nothing to process.
C13_NoReprocessingWithoutAdvance ==
    (/\ pc = "prp_insert"
     /\ loc.i = 1
     /\ \E s \in tracker :
           /\ s.tbl_nm = T_PROP
           /\ \A u \in tracker : u.tbl_nm \in {T_PRCL, T_INV} => u.tbl_id < s.tbl_id)
        => loc.records = << >>

\* C14: when the aggregation stage has run its query, every investor group it
\* holds counts only raw rows inside the watermark window of
\* pl_brnz_prps_prop_sales_dtl (generation = the watermark's, recorded_at <= the
\* watermark's timestamp).
C14_AggregationReadsOnlyTheWindow ==
    pc = "upsert_update"
        => LET wm == get_last_etl_ts(tracker, T_PRPS)
           IN  \A k \in 1..Len(loc.records) :
                  loc.records[k].cnt
                     <= Cardinality({ r \in ext.prps :
                                        in_window(r, wm) /\ r.d.inv = loc.records[k].nm })

\* C15: every row stored by the matching stage carries an investor profile that
\* satisfies all predicates against the row's property: bedrooms equal, bathrooms
\* equal, square footage within 200 of the profile's, year built >= the profile's
\* threshold, ZIP in the profile's list; an unmatched property stores no row.
C15_EveryCandidateHasAMatchingProfile ==
    \A r \in db.prop :
       \E v \in db.inv, b \in db.prcl :
          /\ v.sk = r.inv_fk
          /\ b.sk = r.prcl_fk
          /\ b.br = v.investor_profile.min_prop_attr_br_cnt
          /\ b.bth = v.investor_profile.min_prop_attr_bth_cnt
          /\ b.sqft - v.investor_profile.min_sqft \in (0 - 200)..200
          /\ b.yr >= v.investor_profile.min_year
          /\ b.zip \in v.investor_profile.list_zips

\* the tracker row appended last for a table (one watermark advance)
LastAdvance(t) ==
    CHOOSE u \in tracker : u.tbl_nm = t /\ \A o \in tracker : o.tbl_nm = t => o.tbl_id <= u.tbl_id

\* C16: every row the matching stage joins lies in the window of one single
\* watermark advance of its table: bronze rows carry the generation of the last
\* advance of brnz_prcl_prop_sales_dtl and a timestamp not after it, investor rows
\* the same against silver_int_inv_dtl; hence all joined rows of one side belong
\* to one batch.
C16_JoinedRowsComeFromOneAdvance ==
    pc = "prp_insert"
        => \A k \in 1..Len(loc.records) :
              LET rec == loc.records[k]
              IN  /\ \E u \in tracker : u.tbl_nm = T_PRCL
                  /\ rec.src.etl_nr = LastAdvance(T_PRCL).etl_nr
                  /\ rec.src.ts <= LastAdvance(T_PRCL).last_loaded_ts
                  /\ rec.inv # 0 =>
                        /\ \E u \in tracker : u.tbl_nm = T_INV
                        /\ \E v \in tx.inv :
                              /\ v.sk = rec.inv
                              /\ v.etl_nr = LastAdvance(T_INV).etl_nr
                              /\ v.ts <= LastAdvance(T_INV).last_loaded_ts

C16_Witness ==
    /\ pc = "prp_insert"
    /\ \E k \in 1..Len(loc.records) : loc.records[k].inv # 0

\* the events of the primary (SALE / SOLD) and of the secondary (LISTING /
\* PENDING SALE) kind in a list, and the latest events of a set
PrimaryEvents(evs) ==
    { evs[i] : i \in { n \in 1..Len(evs) : evs[n].type = "SALE" /\ evs[n].name = "SOLD" } }
SecondaryEvents(evs) ==
    { evs[i] : i \in { n \in 1..Len(evs) : evs[n].type = "LISTING" /\ evs[n].name = "PENDING SALE" } }
MostRecent(S) == { e \in S : \A o \in S : o.date <= e.date }

\* the enrichment loop has just handled the only property of the address, whose
\* event-history call succeeded and returned priced events only
SelectionMade ==
    /\ pc = "enr_prop" /\ loc.j = 2 /\ Len(loc.props) = 1
    /\ loc.props[1].status_code = HttpOk
    /\ \A n \in 1..Len(loc.props[1].events) : ~ loc.props[1].events[n].price_null

\* the sale row(s) stored for that property, and "row r stores event e"
SaleRows ==
    { r \in tx.prcl : r.sk = loc.sk /\ r.etl_nr = loc.etl_nr /\ r.status_cd # "RENTAL" }
Stores(r, e) ==
    r.status_cd = e.type /\ r.sub_status_cd = e.name /\ r.dt = e.date /\ r.price = e.price

\* C17: when the list holds a SALE/SOLD event, the stored selection is the most
\* recent SALE/SOLD event if its price is positive, and, if its price is zero and
\* the list holds a LISTING/PENDING SALE event, the most recent such event.
C17_MostRecentPrimaryElseMostRecentSecondary ==
    (SelectionMade /\ PrimaryEvents(loc.props[1].events) # {})
        => \E m \in MostRecent(PrimaryEvents(loc.props[1].events)) :
              /\ m.price > 0 => (SaleRows # {} /\ \A r \in SaleRows : Stores(r, m))
              /\ (m.price = 0 /\ SecondaryEvents(loc.props[1].events) # {})
                    => \E f \in MostRecent(SecondaryEvents(loc.props[1].events)) :
                          SaleRows # {} /\ \A r \in SaleRows : Stores(r, f)

\* C18: when no SALE/SOLD and no LISTING/PENDING SALE event of the list has a
\* positive price, the stored selection is a SALE/SOLD event if the list holds
\* one, otherwise a LISTING/PENDING SALE event if the list holds one, and nothing
\* is stored only when the list holds neither.
C18_UnpricedSelectionPrefersPrimary ==
    (/\ SelectionMade
     /\ \A e \in PrimaryEvents(loc.props[1].events) \cup SecondaryEvents(loc.props[1].events) :
           e.price <= 0)
        => IF PrimaryEvents(loc.props[1].events) # {}
             THEN /\ SaleRows # {}
                  /\ \A r \in SaleRows : \E m \in PrimaryEvents(loc.props[1].events) : Stores(r, m)
           ELSE IF SecondaryEvents(loc.props[1].events) # {}
             THEN /\ SaleRows # {}
                  /\ \A r \in SaleRows : \E f \in SecondaryEvents(loc.props[1].events) : Stores(r, f)
           ELSE SaleRows = {}

\* the rows the running enrichment holds for property k of the current address
RowsOfProperty(k) ==
    { r \in tx.prcl : r.sk = loc.sk /\ r.etl_nr = loc.etl_nr /\ r.pid = loc.props[k].pid }

\* C19: in the enrichment loop a property whose event-history call did not
\* succeed contributes no row and every property handled with a successful call
\* has exactly its rows inserted; a non-success response never ends the run: the
\* loop can only move on to the next property; the rows of the batch are
\* committed when the loop ends.
C19_FailedCallSkipsOnlyThatProperty ==
    /\ pc = "enr_prop"
          => \A k \in 1..(loc.j - 1) :
                RowsOfProperty(k) =
                   IF loc.props[k].status_code # HttpOk THEN {}
                   ELSE emitted_rows(loc.sk, loc.etl_nr, loc.ts, loc.props[k])
    /\ (pc = "enr_prop" /\ loc.j <= Len(loc.props) /\ loc.props[loc.j].status_code # HttpOk)
          => (ENABLED api_event_history /\ ~ ENABLED api_event_history_raise)
    /\ (run.key = K_ENR /\ pc \in {"lookup_read", "lookup_insert", "lookup_commit", "end"})
          => db = tx

\* the number of raw rows of an investor the aggregation query counts
PurchasesOf(n) ==
    Cardinality({ p \in ext.prps : /\ p.d.inv = n
                                   /\ p.d.dt <= clock
                                   /\ p.d.dt >= clock - YearWindow })

\* C20: every stored investor row has active_flg = (stored count >= 2), and after
\* a successful aggregation run every investor with at least one counted raw row
\* has a row of the run's generation with that count and that flag, investors
\* with a single row included (active_flg false).
C20_ActiveFlagIffTwoPurchases ==
    /\ \A r \in tx.inv : r.active_flg = (r.cnt >= ActiveMin)
    /\ (run.key = K_INV /\ run.status = "ok")
          => \A n \in Investors :
                PurchasesOf(n) > 0
                   => \E r \in GenRows(db.inv, run.gen) :
                         /\ r.nm = n
                         /\ r.cnt = PurchasesOf(n)
                         /\ r.active_flg = (PurchasesOf(n) >= ActiveMin)

C20_Witness ==
    /\ run.key = K_INV
    /\ run.status = "ok"
    /\ \E r \in GenRows(db.inv, run.gen) : r.cnt = 1 /\ ~ r.active_flg

\* b is floor(m / BucketWidth) * BucketWidth: the multiple of the width with
\* b <= m < b + BucketWidth
IsFloorBucket(b, m) == b % BucketWidth = 0 /\ b <= m /\ m < b + BucketWidth

\* C21: after a successful aggregation run every stored investor row of the
\* run's generation holds, for year built and for square footage, the floor
\* bucket of the minimum over the investor's raw rows, a multiple of 10, also when
\* that bucket is zero or negative.
C21_BucketsAreFloorOfMinimum ==
    (run.key = K_INV /\ run.status = "ok")
        => \A r \in GenRows(db.inv, run.gen) :
              LET mine == { p \in ext.prps : p.d.inv = r.nm }
              IN  /\ IsFloorBucket(r.investor_profile.min_year, Min0({ p.d.yr : p \in mine }))
                  /\ IsFloorBucket(r.investor_profile.min_sqft, Min0({ p.d.sqft : p \in mine }))

\* C22: the trigger of the sale-history stage returns max generation of the
\* sale-event table + 1 before the background task has done anything, and that
\* number is the generation of every row the task inserts and of the registry row
\* it writes for slvr_int_prop_sales_dlt.
C22_ReturnedGenerationIsTheOneUsed ==
    (run.key = K_SALE /\ pc # "sale_start" /\ run.status # "failed")
        => /\ run.ret = Max0({ r.etl_nr : r \in run.pre.sales }) + 1
           /\ pc = "prop_start" => (tx = run.pre /\ tracker = run.pre_trk)
           /\ \A r \in tx.sales :
                 r.sk \notin { o.sk : o \in run.pre.sales } => r.etl_nr = run.ret
           /\ \A u \in (tracker \cup loc.pending) \ run.pre_trk :
                 u.tbl_nm = T_SALES /\ u.etl_nr = run.ret

C22_Witness ==
    /\ run.key = K_SALE
    /\ run.status = "ok"
    /\ \E r \in db.sales : r.etl_nr = run.ret
    /\ \E u \in tracker \ run.pre_trk : u.tbl_nm = T_SALES /\ u.etl_nr = run.ret

\* the last request has been taken up by the handler
Requested == run.status # "none"

\* C23: a request whose process_key is none of the known keys is a silent no-op:
\* getway returns nothing and raises nothing, no invocation is started, the data
\* tables and the registry are as before the request, and the response has the
\* success status.
C23_UnknownKeyIsASilentNoOp ==
    (/\ Requested
     /\ truthy(process_key_of(run.req))
     /\ process_key_of(run.req) \notin KnownKeys)
        => /\ run.status = "returned"
           /\ run.at = Null
           /\ pc = "idle"
           /\ db = run.pre /\ tx = run.pre /\ tracker = run.pre_trk
           /\ rehouzd_function(run, pc).status_code = HttpOk
           /\ rehouzd_function(run, pc).body # "error"

C23_Witness ==
    /\ run.status = "returned"
    /\ run.key = "no_such_key"
    /\ run.req.q = ""
    /\ tracker # {}
    /\ rehouzd_function(run, pc).status_code = HttpOk

\* C24: a request with no process_key in the query string and none in the body
\* gets the plain-text prompt with status 400, and no stage is dispatched.
C24_MissingKeyGetsThePrompt ==
    (/\ Requested
     /\ run.req.q = Null
     /\ (run.req.body.has => run.req.body.process_key = Null))
        => /\ run.status = "prompt"
           /\ rehouzd_function(run, pc).status_code = HttpBadRequest
           /\ rehouzd_function(run, pc).body = "prompt"

\* C25: every dispatch that succeeds is answered by a JSON object {"value": v}
\* with the success status, v being the stage's result, null for the
\* synchronous stages.
C25_SuccessAnswersJson ==
    (getway_returned(run, pc) /\ run.key \in KnownKeys)
        => /\ rehouzd_function(run, pc).status_code = HttpOk
           /\ rehouzd_function(run, pc).body = "json"
           /\ rehouzd_function(run, pc).value = IF run.key = K_SALE THEN run.ret ELSE NoGen

\* C26: once a statement of a synchronously dispatched stage has raised, the
\* invocation is over, getway has raised to the handler and not returned, and the
\* handler answers status 400 with a text that embeds the text of the exception
\* that was raised: it came up through every layer.
C26_StageExceptionReachesTheHandler ==
    (run.key \in KnownKeys \ {K_SALE} /\ run.at # Null)
        => /\ pc = "idle"
           /\ run.status = "failed"
           /\ getway_raised(run)
           /\ ~ getway_returned(run, pc)
           /\ rehouzd_function(run, pc).status_code = HttpBadRequest
           /\ rehouzd_function(run, pc).body = "error"
           /\ rehouzd_function(run, pc).text = run.exc

\* C27: the commit of upd_lookup_tbl adds exactly one registry row, whose id is
\* greater than every id stored before and whose table name, timestamp and
\* generation are the arguments of the call; every row stored before is still
\* there unchanged.
C27_AdvanceOnlyAppends ==
    [][pc = "lookup_commit"
         => \/ pc' = "idle" /\ tracker' = tracker
            \/ \E u \in tracker' :
                  /\ u \notin tracker
                  /\ tracker' = tracker \cup {u}
                  /\ \A o \in tracker : o.tbl_id < u.tbl_id
                  /\ u.tbl_nm = loc.wm_nm
                  /\ u.last_loaded_ts = loc.wm_ts
                  /\ u.etl_nr = loc.wm_nr]_vars

C27_Witness ==
    /\ pc = "end"
    /\ run.n_adv = 1
    /\ Cardinality(tracker) >= 3
    /\ Cardinality(run.pre_trk) = Cardinality(tracker) - 1

\* C28: a run of the sale-history stage that fails, in either sub-stage or in the
\* registry advance, leaves the committed sale-event table as it was before the
\* run: no inserted row and no flipped latest indicator of the run persists.
C28_SaleHistoryIsOneAtomicBatch ==
    (run.key = K_SALE /\ run.status = "failed") => db.sales = run.pre.sales

\* C29: from the update of upsert_table on and through its insert loop, the rows
\* of the previous generation (the table's maximum when the run began) are all
\* inactive and otherwise as before, the rows of older generations are exactly as
\* before, every other row is one the run inserted, with generation previous + 1
\* and active_rec_ind true, and none of those exists right after the update.
C29_PreviousGenerationFlippedBeforeInserts ==
    (run.key = K_INV /\ pc \in {"upsert_commit1", "upsert_insert"})
        => LET prev == Max0({ r.etl_nr : r \in run.pre.inv })
           IN  /\ loc.prv_etl_nr = prev
               /\ loc.etl_nr = prev + 1
               /\ { r \in tx.inv : r.etl_nr = prev }
                     = { [r EXCEPT !.active_rec_ind = FALSE] : r \in GenRows(run.pre.inv, prev) }
               /\ { r \in tx.inv : r.etl_nr < prev } = { r \in run.pre.inv : r.etl_nr < prev }
               /\ \A r \in tx.inv : r.etl_nr > prev => (r.etl_nr = prev + 1 /\ r.active_rec_ind)
               /\ pc = "upsert_commit1" => GenRows(tx.inv, prev + 1) = {}

C29_Witness ==
    /\ run.key = K_INV
    /\ pc = "upsert_insert"
    /\ \E r \in tx.inv : r.etl_nr = 1 /\ ~ r.active_rec_ind
    /\ \E r \in tx.inv : r.etl_nr = 2 /\ r.active_rec_ind

\* C30: in the loop of prc_slv_int_prop_sls_dlt_pl the step before a row's insert
\* leaves no latest row of the row's address, changes no row of another address
\* and inserts nothing; the insert then adds exactly one row, of that address,
\* and changes no other row.
C30_DeactivationPrecedesInsertAndIsPerAddress ==
    [][ /\ (pc = "prop_deactivate" /\ pc' = "prop_insert")
            => LET usraddr == loc.records[loc.i].usraddr
               IN  /\ LatestOf(tx'.sales, usraddr) = {}
                   /\ { r \in tx'.sales : r.usraddr # usraddr }
                         = { r \in tx.sales : r.usraddr # usraddr }
                   /\ { r.sk : r \in tx'.sales } = { r.sk : r \in tx.sales }
        /\ (pc = "prop_insert" /\ pc' = "prop_deactivate")
            => LET usraddr == loc.records[loc.i].usraddr
               IN  /\ LatestOf(tx.sales, usraddr) = {}
                   /\ tx.sales \subseteq tx'.sales
                   /\ \E r \in tx'.sales :
                         /\ tx'.sales = tx.sales \cup {r}
                         /\ r \notin tx.sales
                         /\ r.usraddr = usraddr
      ]_vars

\* about to insert a row whose address already had a latest row of this run, now
\* deactivated, while a row of the other address is still latest
C30_Witness ==
    /\ run.key = K_SALE
    /\ pc = "prop_insert"
    /\ \E r, o \in GenRows(tx.sales, loc.etl_nr) :
          /\ r.usraddr = loc.records[loc.i].usraddr
          /\ ~ r.latest_record_ind
          /\ o.usraddr # r.usraddr
          /\ o.latest_record_ind

\* C31: when the enrichment loop is about to handle a property whose successful
\* event-history answer holds an event without a price, neither selection raises
\* and the run cannot end there; if that event is the most recent SALE/SOLD
\* event and the list holds a LISTING/PENDING SALE event, the sale selection is
\* such a secondary event.
C31_AbsentPriceFallsBackWithoutError ==
    (/\ pc = "enr_prop"
     /\ loc.j <= Len(loc.props)
     /\ loc.props[loc.j].status_code = HttpOk
     /\ \E n \in 1..Len(loc.props[loc.j].events) : loc.props[loc.j].events[n].price_null)
        => LET events == loc.props[loc.j].events
           IN  /\ sale_selection(events).kind # "raise"
               /\ rental_selection(events).kind # "raise"
               /\ ~ ENABLED api_event_history_raise
               /\ (/\ \E m \in MostRecent(PrimaryEvents(events)) : m.price_null
                   /\ SecondaryEvents(events) # {})
                     => /\ sale_selection(events).kind = "event"
                        /\ sale_selection(events).ev \in SecondaryEvents(events)

\* the parameters the advance-raw-watermark request of the last run carried
MissingParameter ==
    /\ run.key = K_UPD
    /\ (run.req.dic.etl_recorded_gmts = NoValue \/ run.req.dic.etl_nr = NoValue)

\* C32: an advance-raw-watermark request without etl_recorded_gmts or without
\* etl_nr appends no row to the registry at any point of its handling, and once
\* it is answered the answer has status 400.
C32_MissingParameterIsAClientError ==
    MissingParameter
        => /\ tracker = run.pre_trk
           /\ rehouzd_function(run, pc).status_code \in {0, HttpBadRequest}

\* the watermark rows of a registry for every table but one
OtherWatermarks(trk, tbl_name) == { r \in trk : r.tbl_nm # tbl_name }

\* C33: a build-property-comparables run can get past its selection (there are
\* successful runs), and after a successful one the registry differs from the
\* registry before the run by rows of slvr_int_prop_comps only and the watermark
\* read for slvr_int_prop_comps is the run's generation.
C33_ComparablesRunAdvancesItsOwnWatermark ==
    /\ pc = "cmps_start" => ENABLED (Next /\ pc' # "idle")
    /\ (run.key = K_CMPS /\ run.status = "ok")
          => /\ OtherWatermarks(tracker, T_COMPS) = OtherWatermarks(run.pre_trk, T_COMPS)
             /\ get_last_etl_ts(tracker, T_COMPS).nr = run.gen
             /\ run.gen > 0

\* C34: with the background sale-history task and other invocations interleaved,
\* the registry never holds the row a sale-history task appended together with
\* another row of the same tbl_id.
C34_InterleavedAdvancesGetDistinctIds ==
    \A r1 \in { r \in tracker : r.tbl_nm = T_SALES } :
       \A r2 \in tracker : r2 # r1 => r2.tbl_id # r1.tbl_id

\* C35: two triggers of the background stage, served in the two slots, never
\* return the same generation, and the committed sale-event table never holds
\* two rows with the same surrogate key.
C35_OverlappingTriggersGetDistinctGenerationsAndKeys ==
    /\ (\A p \in Slots : run[p].key = K_SALE) => run[1].ret # run[2].ret
    /\ \A r1, r2 \in db.sales : r1.sk = r2.sk => r1 = r2

====
